---- MODULE Spec2Model ----
(***************************************************************************)
(* A model of InventoryManager (src/src/inventory_manager.py): the         *)
(* in-memory catalog loaded from a CSV backing table, the write-through    *)
(* reservation, and the TTL search cache in front of the                   *)
(* parse / filter / score / rank pipeline.                                 *)
(*                                                                         *)
(* Around it: the tools that the sales agent calls                         *)
(* (src/src/tools/inventory_tools.py, src/src/tools/manager_tools.py),     *)
(* the sessions that share the one inventory_manager of the process, the   *)
(* conversation state of CarBotCrewCorrected                               *)
(* (src/src/carbot_crew_final.py) and ProfileAnalyzer                      *)
(* (src/src/utils/profile_analyzer.py).                                    *)
(*                                                                         *)
(* Text is modelled as a sequence of one-character strings, so that        *)
(* lower(), strip(), substring tests and the budget regular expressions    *)
(* are computed as Python computes them.  Accented letters are written     *)
(* with a trailing apostrophe-free tag: "a_" is a-acute, "A_" its capital. *)
(***************************************************************************)
EXTENDS Integers, Sequences, FiniteSets, TLC

\* ------------------------------------------------------------------ bounds
\* The clock (time.time()) is read at the instants of Instants, up to MaxTime.
MaxTime == 301
\* intelligent_search is called while hits + misses < MaxCalls.
MaxCalls == 2

\* ------------------------------------------------------------------- text
UpperToLower ==
    [A |-> "a", B |-> "b", C |-> "c", D |-> "d", E |-> "e", F |-> "f",
     G |-> "g", H |-> "h", I |-> "i", J |-> "j", K |-> "k", L |-> "l",
     M |-> "m", N |-> "n", O |-> "o", P |-> "p", Q |-> "q", R |-> "r",
     S |-> "s", T |-> "t", U |-> "u", V |-> "v", W |-> "w", X |-> "x",
     Y |-> "y", Z |-> "z", A_ |-> "a_", E_ |-> "e_", I_ |-> "i_",
     O_ |-> "o_", U_ |-> "u_"]

\* str.lower(), one character
lower_char(c) == IF c \in DOMAIN UpperToLower THEN UpperToLower[c] ELSE c

\* str.upper(), one character
upper_char(c) ==
    IF \E u \in DOMAIN UpperToLower : UpperToLower[u] = c
    THEN CHOOSE u \in DOMAIN UpperToLower : UpperToLower[u] = c
    ELSE c

\* str.lower()
str_lower(s) == [i \in 1..Len(s) |-> lower_char(s[i])]

\* str.upper()
str_upper(s) == [i \in 1..Len(s) |-> upper_char(s[i])]

\* str.title() for a single word: first letter upper, the rest lower
str_title(s) == [i \in 1..Len(s) |-> IF i = 1 THEN upper_char(s[i]) ELSE lower_char(s[i])]

RECURSIVE str_lstrip(_)
str_lstrip(s) == IF s # <<>> /\ Head(s) = " " THEN str_lstrip(Tail(s)) ELSE s

RECURSIVE str_rstrip(_)
str_rstrip(s) ==
    IF s # <<>> /\ s[Len(s)] = " " THEN str_rstrip(SubSeq(s, 1, Len(s) - 1)) ELSE s

\* str.strip()
str_strip(s) == str_rstrip(str_lstrip(s))

\* sub in s
str_contains(sub, s) ==
    \E i \in 0..(Len(s) - Len(sub)) : SubSeq(s, i + 1, i + Len(sub)) = sub

DigitVal ==
    "0" :> 0 @@ "1" :> 1 @@ "2" :> 2 @@ "3" :> 3 @@ "4" :> 4 @@
    "5" :> 5 @@ "6" :> 6 @@ "7" :> 7 @@ "8" :> 8 @@ "9" :> 9

IsDigit(c) == c \in DOMAIN DigitVal

\* int() of a run of decimal digits
RECURSIVE int_of(_)
int_of(ds) ==
    IF ds = <<>> THEN 0
    ELSE 10 * int_of(SubSeq(ds, 1, Len(ds) - 1)) + DigitVal[ds[Len(ds)]]

\* the longest run of digits of s that starts at position i (\d+ is greedy)
RECURSIVE digit_run(_, _)
digit_run(s, i) ==
    IF i <= Len(s) /\ IsDigit(s[i]) THEN <<s[i]>> \o digit_run(s, i + 1) ELSE <<>>

\* str(n) for n >= 0
RECURSIVE str_of_int(_)
str_of_int(n) ==
    LET d == CHOOSE c \in DOMAIN DigitVal : DigitVal[c] = n % 10
    IN  IF n < 10 THEN <<d>> ELSE str_of_int(n \div 10) \o <<d>>

\* A missing cell of the DataFrame (float nan); never equal to a text.
NaN == <<"NaN">>

\* str(x) of a cell: str(nan) is 'nan'
str_of_cell(x) == IF x = NaN THEN <<"n", "a", "n">> ELSE x

\* re.search(literal + r'(\d+)', s): <<n>> with n the number captured by the
\* leftmost match, or <<>> when there is no match (None).
re_search_number(literal, s) ==
    LET starts == {i \in 1..Len(s) :
                      /\ i + Len(literal) <= Len(s)
                      /\ SubSeq(s, i, i + Len(literal) - 1) = literal
                      /\ IsDigit(s[i + Len(literal)])}
    IN  IF starts = {} THEN <<>>
        ELSE LET i == CHOOSE j \in starts : \A k \in starts : j <= k
             IN  <<int_of(digit_run(s, i + Len(literal)))>>

\* ---------------------------------------------------------- query parser
\* budget_patterns of _parse_search_query, in their order:
\* r'bajo (\d+)', r'menos de (\d+)', r'hasta (\d+)', r'máximo (\d+)',
\* r'presupuesto (\d+)' (the literal before the captured number)
budget_patterns ==
    << <<"b", "a", "j", "o", " ">>,
       <<"m", "e", "n", "o", "s", " ", "d", "e", " ">>,
       <<"h", "a", "s", "t", "a", " ">>,
       <<"m", "a_", "x", "i", "m", "o", " ">>,
       <<"p", "r", "e", "s", "u", "p", "u", "e", "s", "t", "o", " ">> >>

\* vehicle_types of _parse_search_query, in declaration (dict) order
vehicle_types ==
    << [name |-> <<"s", "u", "v">>,
        keywords |-> { <<"s", "u", "v">>,
                       <<"c", "a", "m", "i", "o", "n", "e", "t", "a">>,
                       <<"t", "o", "d", "o", "t", "e", "r", "r", "e", "n", "o">> }],
       [name |-> <<"s", "e", "d", "a", "n">>,
        keywords |-> { <<"s", "e", "d", "a", "n">>, <<"s", "e", "d", "a_", "n">> }],
       [name |-> <<"h", "a", "t", "c", "h", "b", "a", "c", "k">>,
        keywords |-> { <<"h", "a", "t", "c", "h", "b", "a", "c", "k">>,
                       <<"c", "o", "m", "p", "a", "c", "t", "o">> }],
       [name |-> <<"t", "r", "u", "c", "k">>,
        keywords |-> { <<"t", "r", "u", "c", "k">>, <<"p", "i", "c", "k", "u", "p">>,
                       <<"c", "a", "m", "i", "o_", "n">> }],
       [name |-> <<"c", "o", "n", "v", "e", "r", "t", "i", "b", "l", "e">>,
        keywords |-> { <<"c", "o", "n", "v", "e", "r", "t", "i", "b", "l", "e">>,
                       <<"d", "e", "s", "c", "a", "p", "o", "t", "a", "b", "l", "e">> }],
       [name |-> <<"c", "o", "u", "p", "e">>,
        keywords |-> { <<"c", "o", "u", "p", "e">>, <<"c", "o", "u", "p", "e_">>,
                       <<"d", "e", "p", "o", "r", "t", "i", "v", "o">> }] >>

\* colors of _parse_search_query, in declaration (dict) order
colors ==
    << [name |-> <<"r", "o", "j", "o">>,
        keywords |-> { <<"r", "o", "j", "o">>, <<"r", "e", "d">> }],
       [name |-> <<"a", "z", "u", "l">>,
        keywords |-> { <<"a", "z", "u", "l">>, <<"b", "l", "u", "e">> }],
       [name |-> <<"n", "e", "g", "r", "o">>,
        keywords |-> { <<"n", "e", "g", "r", "o">>, <<"b", "l", "a", "c", "k">> }],
       [name |-> <<"b", "l", "a", "n", "c", "o">>,
        keywords |-> { <<"b", "l", "a", "n", "c", "o">>, <<"w", "h", "i", "t", "e">> }],
       [name |-> <<"g", "r", "i", "s">>,
        keywords |-> { <<"g", "r", "i", "s">>, <<"g", "r", "a", "y">>,
                       <<"g", "r", "e", "y">> }],
       [name |-> <<"p", "l", "a", "t", "a">>,
        keywords |-> { <<"p", "l", "a", "t", "a">>,
                       <<"s", "i", "l", "v", "e", "r">> }] >>

family_words ==
    { <<"f", "a", "m", "i", "l", "i", "a">>, <<"f", "a", "m", "i", "l", "i", "a", "r">>,
      <<"s", "e", "g", "u", "r", "o">> }

economical_words ==
    { <<"e", "c", "o", "n", "o_", "m", "i", "c", "o">>, <<"b", "a", "r", "a", "t", "o">>,
      <<"h", "i_", "b", "r", "i", "d", "o">> }

luxury_words ==
    { <<"l", "u", "j", "o">>, <<"p", "r", "e", "m", "i", "u", "m">>,
      <<"l", "u", "x", "u", "r", "y">> }

\* the loop over budget_patterns without its break: the last pattern that
\* matches decides
first_budget_match_last(patterns, text) ==
    LET matching == {i \in 1..Len(patterns) : re_search_number(patterns[i], text) # <<>>}
    IN  IF matching = {} THEN <<>>
        ELSE re_search_number(patterns[CHOOSE i \in matching : \A j \in matching : j <= i],
                              text)

\* for pattern in budget_patterns: match = re.search(...); if match: ...; break
RECURSIVE first_budget_match(_, _)
first_budget_match(patterns, text) ==
    IF patterns = <<>> THEN <<>>
    ELSE LET m == re_search_number(Head(patterns), text)
         IN  IF m # <<>> THEN m ELSE first_budget_match(Tail(patterns), text)

\* the loop over mapping.items() without its break: the last entry with a
\* keyword in the text decides
first_keyword_match_last(mapping, text) ==
    LET matching == {i \in 1..Len(mapping) :
                        \E k \in mapping[i].keywords : str_contains(k, text)}
    IN  IF matching = {} THEN <<>>
        ELSE <<mapping[CHOOSE i \in matching : \A j \in matching : j <= i].name>>

\* for name, keywords in mapping.items(): if any(k in text ...): ...; break
RECURSIVE first_keyword_match(_, _)
first_keyword_match(mapping, text) ==
    IF mapping = <<>> THEN <<>>
    ELSE IF \E k \in Head(mapping).keywords : str_contains(k, text)
         THEN <<Head(mapping).name>>
         ELSE first_keyword_match(Tail(mapping), text)

any_word_in(words, text) == \E w \in words : str_contains(w, text)

\* A dict entry when the condition holds, nothing otherwise.
entry_if(cond, key, value) == IF cond THEN key :> value ELSE <<>>

\* _parse_search_query: the criteria dict, a function whose domain is the
\* set of keys present.
parse_search_query(query) ==
    LET query_lower == str_lower(query)
        budget == first_budget_match(budget_patterns, query_lower)
        style  == first_keyword_match(vehicle_types, query_lower)
        color  == first_keyword_match(colors, query_lower)
    IN  entry_if(budget # <<>>, "budget_max", IF budget # <<>> THEN budget[1] ELSE 0)
        @@ entry_if(style # <<>>, "body_style",
                    IF style # <<>> THEN str_upper(style[1]) ELSE <<>>)
        @@ entry_if(color # <<>>, "color",
                    IF color # <<>> THEN str_title(color[1]) ELSE <<>>)
        @@ entry_if(any_word_in(family_words, query_lower), "family_friendly", TRUE)
        @@ entry_if(any_word_in(economical_words, query_lower), "economical", TRUE)
        @@ entry_if(any_word_in(luxury_words, query_lower), "luxury", TRUE)

has_key(dict, key) == key \in DOMAIN dict

\* criteria.get(key, False)
get_flag(criteria, key) == IF has_key(criteria, key) THEN criteria[key] ELSE FALSE

\* ------------------------------------------------------ filter and score
\* datetime.now().year
current_year == 2025

\* the rows of a frame that satisfy keep, in the frame's order
RECURSIVE frame_select(_, _)
frame_select(rows, keep) ==
    IF rows = <<>> THEN <<>>
    ELSE (IF keep[1] THEN <<Head(rows)>> ELSE <<>>)
         \o frame_select(Tail(rows), Tail(keep))

\* _apply_filters without the final status == 'Available' filter
apply_filters_any_status(df, criteria) ==
    LET by_budget ==
            IF has_key(criteria, "budget_max")
            THEN frame_select(df, [i \in 1..Len(df) |->
                                      df[i].price <= criteria["budget_max"]])
            ELSE df
        by_style ==
            IF has_key(criteria, "body_style")
            THEN frame_select(by_budget, [i \in 1..Len(by_budget) |->
                     /\ by_budget[i].body_styles # NaN
                     /\ str_upper(by_budget[i].body_styles) = criteria["body_style"]])
            ELSE by_budget
    IN  IF has_key(criteria, "color")
        THEN frame_select(by_style, [i \in 1..Len(by_style) |->
                 /\ by_style[i].color # NaN
                 /\ str_contains(str_lower(criteria["color"]),
                                 str_lower(by_style[i].color))])
        ELSE by_style

\* _apply_filters with price < budget for price <= budget
apply_filters_strict_budget(df, criteria) ==
    LET by_budget ==
            IF has_key(criteria, "budget_max")
            THEN frame_select(df, [i \in 1..Len(df) |->
                                      df[i].price < criteria["budget_max"]])
            ELSE df
        by_style ==
            IF has_key(criteria, "body_style")
            THEN frame_select(by_budget, [i \in 1..Len(by_budget) |->
                     /\ by_budget[i].body_styles # NaN
                     /\ str_upper(by_budget[i].body_styles) = criteria["body_style"]])
            ELSE by_budget
        by_color ==
            IF has_key(criteria, "color")
            THEN frame_select(by_style, [i \in 1..Len(by_style) |->
                     /\ by_style[i].color # NaN
                     /\ str_contains(str_lower(criteria["color"]),
                                     str_lower(by_style[i].color))])
            ELSE by_style
    IN  frame_select(by_color, [i \in 1..Len(by_color) |->
                                   by_color[i].status = "Available"])

\* _apply_filters: budget, body style, color, then status == 'Available'
apply_filters(df, criteria) ==
    LET by_budget ==
            IF has_key(criteria, "budget_max")
            THEN frame_select(df, [i \in 1..Len(df) |->
                                      df[i].price <= criteria["budget_max"]])
            ELSE df
        by_style ==
            IF has_key(criteria, "body_style")
            THEN frame_select(by_budget, [i \in 1..Len(by_budget) |->
                     /\ by_budget[i].body_styles # NaN
                     /\ str_upper(by_budget[i].body_styles) = criteria["body_style"]])
            ELSE by_budget
        by_color ==
            IF has_key(criteria, "color")
            THEN frame_select(by_style, [i \in 1..Len(by_style) |->
                     /\ by_style[i].color # NaN
                     /\ str_contains(str_lower(criteria["color"]),
                                     str_lower(by_style[i].color))])
            ELSE by_style
    IN  frame_select(by_color, [i \in 1..Len(by_color) |->
                                   by_color[i].status = "Available"])

\* _calculate_relevance with year > current_year - 2 for year >= current_year - 2
calculate_relevance_year_strict(row, criteria) ==
    (IF row.status = "Available" THEN 10 ELSE 0)
    + (IF get_flag(criteria, "family_friendly")
          /\ str_upper(row.body_styles) \in { <<"S", "U", "V">>, <<"S", "E", "D", "A", "N">> }
       THEN 5 ELSE 0)
    + (IF get_flag(criteria, "family_friendly")
          /\ str_contains(<<"s", "a", "f", "e", "t", "y">>,
                          str_lower(str_of_cell(row.features)))
       THEN 3 ELSE 0)
    + (IF get_flag(criteria, "economical") /\ row.price < 30000 THEN 3 ELSE 0)
    + (IF get_flag(criteria, "economical")
          /\ str_contains(<<"h", "y", "b", "r", "i", "d">>,
                          str_lower(str_of_cell(row.fuel_type)))
       THEN 4 ELSE 0)
    - (IF row.mileage > 100000 THEN 2 ELSE 0)
    + (IF row.year > current_year - 2 THEN 2 ELSE 0)

\* _calculate_relevance
calculate_relevance(row, criteria) ==
    (IF row.status = "Available" THEN 10 ELSE 0)
    + (IF get_flag(criteria, "family_friendly")
          /\ str_upper(row.body_styles) \in { <<"S", "U", "V">>, <<"S", "E", "D", "A", "N">> }
       THEN 5 ELSE 0)
    + (IF get_flag(criteria, "family_friendly")
          /\ str_contains(<<"s", "a", "f", "e", "t", "y">>,
                          str_lower(str_of_cell(row.features)))
       THEN 3 ELSE 0)
    + (IF get_flag(criteria, "economical") /\ row.price < 30000 THEN 3 ELSE 0)
    + (IF get_flag(criteria, "economical")
          /\ str_contains(<<"h", "y", "b", "r", "i", "d">>,
                          str_lower(str_of_cell(row.fuel_type)))
       THEN 4 ELSE 0)
    - (IF row.mileage > 100000 THEN 2 ELSE 0)
    + (IF row.year >= current_year - 2 THEN 2 ELSE 0)

remove_at(seq, i) == SubSeq(seq, 1, i - 1) \o SubSeq(seq, i + 1, Len(seq))

\* the first n rows of the frame, not ordered by score
nlargest_head(n, rows, scores) ==
    IF n <= 0 THEN <<>>
    ELSE SubSeq(rows, 1, IF n < Len(rows) THEN n ELSE Len(rows))

\* DataFrame.nlargest(n, column) with keep='first': the n rows of largest
\* score, by decreasing score, equal scores in the frame's order.
RECURSIVE nlargest(_, _, _)
nlargest(n, rows, scores) ==
    IF n <= 0 \/ rows = <<>> THEN <<>>
    ELSE LET i == CHOOSE j \in 1..Len(rows) :
                      /\ \A k \in 1..Len(rows) : scores[k] <= scores[j]
                      /\ \A k \in 1..(j - 1) : scores[k] < scores[j]
         IN  <<rows[i]>> \o nlargest(n - 1, remove_at(rows, i), remove_at(scores, i))

\* row.get(key, default)
row_get(row, key, default) == IF key \in DOMAIN row THEN row[key] ELSE default

\* Vehicle(...) as built from a row in intelligent_search (lines 145-159)
Vehicle(row) ==
    [vin |-> row.vin, make |-> row.make, model |-> row.model, year |-> row.year,
     price |-> row.price, mileage |-> row.mileage, color |-> row.color,
     body_style |-> row.body_styles, fuel_type |-> row.fuel_type,
     transmission |-> row.transmission,
     status |-> row_get(row, "status", "Available"),
     safety_rating |-> row_get(row, "safety_rating", NaN),
     features |-> row_get(row, "features", NaN)]

\* _row_to_vehicle: the body column is body_styles when present, else
\* body_style
row_to_vehicle(row) ==
    LET body_col == IF "body_styles" \in DOMAIN row THEN "body_styles" ELSE "body_style"
    IN  [vin |-> row.vin, make |-> row.make, model |-> row.model, year |-> row.year,
         price |-> row.price, mileage |-> row.mileage, color |-> row.color,
         body_style |-> row[body_col], fuel_type |-> row.fuel_type,
         transmission |-> row.transmission,
         status |-> row_get(row, "status", "Available"),
         safety_rating |-> row_get(row, "safety_rating", NaN),
         features |-> row_get(row, "features", NaN)]

\* The cache-miss path of intelligent_search (lines 122-160): parse, filter,
\* score, rank, convert.
search_pipeline(df, query, max_results) ==
    LET criteria == parse_search_query(query)
        filtered_df == apply_filters(df, criteria)
        relevance_score == [i \in 1..Len(filtered_df) |->
                               calculate_relevance(filtered_df[i], criteria)]
        top_results == nlargest(max_results, filtered_df, relevance_score)
    IN  [i \in 1..Len(top_results) |-> Vehicle(top_results[i])]

\* the columns read when a Vehicle is built from a row (lines 145-155)
VehicleColumns ==
    {"vin", "make", "model", "year", "price", "mileage", "color", "body_styles",
     "fuel_type", "transmission"}

\* df[column].str on the frame read from the backing table: a KeyError when
\* the column is missing, an AttributeError when no row has a value in it
\* (read_csv makes it a float column)
text_column_raises(df, column) ==
    \/ column \notin df.columns
    \/ /\ df.rows # <<>>
       /\ \A i \in 1..Len(df.rows) : df.rows[i][column] = NaN

\* whether _apply_filters raises
filters_raise(df, criteria) ==
    \/ has_key(criteria, "budget_max") /\ "price" \notin df.columns
    \/ has_key(criteria, "body_style") /\ text_column_raises(df, "body_styles")
    \/ has_key(criteria, "color") /\ text_column_raises(df, "color")

\* whether _calculate_relevance raises: row['body_styles'].upper() of a
\* missing column (KeyError) or of a missing value (a float has no upper)
relevance_raises(columns, row, criteria) ==
    \/ /\ get_flag(criteria, "family_friendly")
       /\ \/ "body_styles" \notin columns
          \/ row.body_styles = NaN
    \/ get_flag(criteria, "economical") /\ "price" \notin columns
    \/ "mileage" \notin columns
    \/ "year" \notin columns

\* whether the cache-miss path of intelligent_search (lines 122-160) raises
search_raises(df, query, max_results) ==
    LET criteria == parse_search_query(query)
    IN  \/ filters_raise(df, criteria)
        \/ LET filtered_df == apply_filters(df.rows, criteria)
           IN  \/ \E i \in 1..Len(filtered_df) :
                     relevance_raises(df.columns, filtered_df[i], criteria)
               \/ /\ filtered_df # <<>>
                  /\ max_results >= 1
                  /\ ~(VehicleColumns \subseteq df.columns)

\* ------------------------------------------------------ catalog and files
\* The columns of the backing table (spec section 6, and the keys read by
\* intelligent_search and _row_to_vehicle).
Columns ==
    {"vin", "make", "model", "year", "price", "mileage", "color", "body_styles",
     "fuel_type", "transmission", "status", "safety_rating", "features"}

row_V1 ==
    [vin |-> "V1", make |-> "Toyota", model |-> "RAV4", year |-> current_year,
     price |-> 28000, mileage |-> 10000, color |-> <<"R", "o", "j", "o">>,
     body_styles |-> <<"S", "U", "V">>, fuel_type |-> <<"H", "y", "b", "r", "i", "d">>,
     transmission |-> "Automatic", status |-> "Available",
     safety_rating |-> <<"5">>, features |-> <<"S", "a", "f", "e", "t", "y">>]

row_V2 ==
    [vin |-> "V2", make |-> "Honda", model |-> "Accord", year |-> current_year - 5,
     price |-> 35000, mileage |-> 120000, color |-> <<"A", "z", "u", "l">>,
     body_styles |-> <<"S", "e", "d", "a", "n">>, fuel_type |-> <<"G", "a", "s">>,
     transmission |-> "Manual", status |-> "Available",
     safety_rating |-> NaN, features |-> NaN]

row_V3 ==
    [vin |-> "V3", make |-> "Ford", model |-> "Escape", year |-> current_year - 1,
     price |-> 32000, mileage |-> 20000, color |-> <<"N", "e", "g", "r", "o">>,
     body_styles |-> <<"s", "u", "v">>, fuel_type |-> <<"G", "a", "s">>,
     transmission |-> "Automatic", status |-> "Available",
     safety_rating |-> NaN, features |-> NaN]

\* a vehicle whose body style is missing in the backing table
row_V4 ==
    [vin |-> "V4", make |-> "Kia", model |-> "Rio", year |-> current_year,
     price |-> 25000, mileage |-> 5000, color |-> <<"R", "o", "j", "o">>,
     body_styles |-> NaN, fuel_type |-> <<"G", "a", "s">>,
     transmission |-> "Manual", status |-> "Available",
     safety_rating |-> NaN, features |-> NaN]

\* pd.DataFrame(): no columns, no rows
EmptyFrame == [columns |-> {}, rows |-> <<>>]

Frame(rows) == [columns |-> Columns, rows |-> rows]

\* to_csv_cell with na_rep='nan': a missing value written as the text nan
to_csv_cell_nan(x) == IF x = NaN THEN <<"n", "a", "n">> ELSE x

\* One cell as DataFrame.to_csv writes it: a missing value is an empty cell.
to_csv_cell(x) == IF x = NaN THEN <<>> ELSE x

\* One cell as pd.read_csv reads it: an empty cell is a missing value.
read_csv_cell(x) == IF x = <<>> THEN NaN ELSE x

TextColumns ==
    {"color", "body_styles", "body_style", "fuel_type", "safety_rating", "features"}

\* DataFrame.to_csv(path, index=False): the header and every row
to_csv(df) ==
    [exists |-> TRUE, parses |-> TRUE, header |-> df.columns,
     lines |-> [i \in 1..Len(df.rows) |->
                   [c \in DOMAIN df.rows[i] |->
                       IF c \in TextColumns THEN to_csv_cell(df.rows[i][c])
                       ELSE df.rows[i][c]]]]

\* pd.read_csv(path) of a file that exists and parses
read_csv(file) ==
    [columns |-> file.header,
     rows |-> [i \in 1..Len(file.lines) |->
                  [c \in DOMAIN file.lines[i] |->
                      IF c \in TextColumns THEN read_csv_cell(file.lines[i][c])
                      ELSE file.lines[i][c]]]]

MissingFile == [exists |-> FALSE, parses |-> FALSE, header |-> {}, lines |-> <<>>]

MalformedFile == [exists |-> TRUE, parses |-> FALSE, header |-> {}, lines |-> <<>>]

\* The catalogs the backing table is drawn from: no row, one row, two rows,
\* and another two-row catalog (same size, different vehicles).
Tables ==
    { <<>>, <<row_V1>>, <<row_V1, row_V2>>, <<row_V3, row_V2>> }

\* The backing table as shipped with the program: the header of Columns,
\* one line per vehicle, an empty cell where the vehicle has no value.
TableFile(table) ==
    [exists |-> TRUE, parses |-> TRUE, header |-> Columns,
     lines |-> [i \in 1..Len(table) |->
                   [c \in DOMAIN table[i] |->
                       IF c \in TextColumns /\ table[i][c] = NaN
                       THEN <<>> ELSE table[i][c]]]]

Files == {MissingFile, MalformedFile} \cup {TableFile(t) : t \in Tables}

\* The backing tables the program is started on: none, an unreadable one, a
\* header without rows, and the two-row catalog.
InitialFiles ==
    {MissingFile, MalformedFile, TableFile(<<>>), TableFile(<<row_V1, row_V2>>)}

\* Vehicles for the filter, the score and the ranking: a lower-case body
\* style, a price of exactly 30000, a year of exactly current_year - 2 and
\* a mileage of exactly 100000; a reserved one; one without color and
\* features.
row_P2 ==
    [row_V3 EXCEPT !.price = 30000, !.year = current_year - 2, !.mileage = 100000,
                   !.color = <<"r", "o", "j", "o", " ", "o", "s", "c", "u", "r", "o">>]

row_P3 == [row_V2 EXCEPT !.status = "Reserved", !.color = <<"R", "o", "j", "o">>]

row_P5 ==
    [row_V1 EXCEPT !.vin = "V5", !.price = 31000, !.color = NaN, !.features = NaN,
                   !.fuel_type = <<"G", "a", "s">>]

\* The catalogs the pure steps are applied to: one whose text columns all
\* hold values, one with a missing body style, one whose only vehicle has
\* no color.
PureTables ==
    { <<row_P2, row_V1, row_P3, row_P5>>, <<row_V1, row_V4>>, <<row_P5>> }

\* Two backing tables of the same size: in the second a vehicle has no body
\* style.
FaultyFiles == {TableFile(<<row_V1, row_V2>>), TableFile(<<row_V1, row_V4>>)}

Vins == {"V2", "V9"}

\* The queries passed to intelligent_search: 'SUV', ' suv ' and
\* 'auto familiar'.
Queries ==
    { <<"S", "U", "V">>,
      <<" ", "s", "u", "v", " ">>,
      <<"a", "u", "t", "o", " ", "f", "a", "m", "i", "l", "i", "a", "r">> }

\* The criteria records passed to _apply_filters and _calculate_relevance,
\* of the form _parse_search_query builds: an upper-case body style, a
\* capitalised color, flags that are True when present.
CriteriaRecords ==
    { entry_if(b # 0, "budget_max", b)
      @@ entry_if(st # <<>>, "body_style", st)
      @@ entry_if(c # <<>>, "color", c)
      @@ entry_if(f, "family_friendly", TRUE)
      @@ entry_if(e, "economical", TRUE) :
        b \in {0, 30000},
        st \in {<<>>, <<"S", "U", "V">>, <<"S", "E", "D", "A", "N">>},
        c \in {<<>>, <<"R", "o", "j", "o">>, <<"A", "z", "u", "l">>},
        f \in BOOLEAN, e \in BOOLEAN }

\* The queries passed to _parse_search_query.
ParseQueries ==
    { <<>>,
      <<"h", "a", "s", "t", "a", " ", "4", "0", "0", "0", "0", " ", "m", "a_", "x", "i", "m", "o", " ", "5", "0", "0", "0", "0">>,
      <<"M", "A_", "X", "I", "M", "O", " ", "5", "0", "0", "0", "0", " ", "H", "A", "S", "T", "A", " ", "4", "0", "0", "0", "0">>,
      <<"p", "r", "e", "s", "u", "p", "u", "e", "s", "t", "o", " ", "2", "0", "0", "0", "0", " ", "d", "e", "b", "a", "j", "o", " ", "3", "5", "0", "0">>,
      <<"h", "a", "s", "t", "a", " ", "1", "0", "0", " ", "h", "a", "s", "t", "a", " ", "2", "0", "0">>,
      <<"h", "a", "s", "t", "a", " ", "m", "i", "l">>,
      <<"s", "e", "d", "a", "n", " ", "o", " ", "s", "u", "v">>,
      <<"d", "e", "p", "o", "r", "t", "i", "v", "o", " ", "o", " ", "c", "a", "m", "i", "o", "n", "e", "t", "a">>,
      <<"P", "i", "c", "k", "u", "p", " ", "c", "o", "n", "v", "e", "r", "t", "i", "b", "l", "e">>,
      <<"b", "l", "u", "e", " ", "r", "o", "j", "o", " ", "s", "e", "d", "a", "n", " ", "s", "u", "v">>,
      <<"n", "e", "g", "r", "o", " ", "a", "z", "u", "l">>,
      <<"a", "u", "t", "o", " ", "p", "r", "e", "m", "i", "u", "m", " ", "f", "a", "m", "i", "l", "i", "a", "r", " ", "b", "a", "r", "a", "t", "o">> }

\* The max_results passed to intelligent_search.
MaxResultsChoices == {1, 3}


\* ------------------------------------------------------------------ state
VARIABLES
    csv_file,       \* the backing table at csv_path
    inventory_df,   \* InventoryManager.inventory_df
    search_cache,   \* InventoryManager._search_cache, in insertion order
    cache_stats,    \* InventoryManager._cache_stats
    clock,          \* time.time()
    last,           \* the last call (or edit of the backing table) and its outcome;
                    \* at is the clock reading of a search
    calls,          \* the number of intelligent_search calls made so far
    counted,        \* the number of intelligent_search calls made on a catalog
                    \* with rows since construction or the last clear_cache
    reserved_at,    \* per vin: the times at which reserve_vehicle returned
                    \* True
    tool,           \* the last call of a tool's _run and what it gave back to
                    \* the agent
    crew,           \* CarBotCrewCorrected: conversation_count, sales_stage,
                    \* customer_profile
    sessions        \* per session: where its reserve_vehicle call stands

vars == <<csv_file, inventory_df, search_cache, cache_stats, clock, last, calls,
          counted, reserved_at, tool, crew, sessions>>

\* the state outside InventoryManager
chat_vars == <<tool, crew, sessions>>

\* self._cache_ttl = 300
cache_ttl == 300

\* The clock readings at which calls are made: the origin, one second
\* later, and the same two a TTL later.
Instants == {t \in 0..MaxTime : t % cache_ttl <= 1}

\* the capacity tested by _cache_result: len(self._search_cache) >= 50
CacheCapacity == 50

\* hashlib.md5(text.encode()).hexdigest(): a digest of the text, taken to be
\* free of collisions
md5_hexdigest(text) == <<"md5", text>>

\* _generate_cache_key without max_results in the key
generate_cache_key_no_max(query, max_results, df) ==
    md5_hexdigest(str_strip(str_lower(query)) \o <<":">> \o str_of_int(Len(df.rows)))

\* _generate_cache_key: f"{query.lower().strip()}:{max_results}:{len(df)}"
generate_cache_key(query, max_results, df) ==
    md5_hexdigest(str_strip(str_lower(query)) \o <<":">> \o str_of_int(max_results)
                  \o <<":">> \o str_of_int(Len(df.rows)))

\* the position of key in the dict, 0 when absent
cache_position(cache, key) ==
    IF \E i \in 1..Len(cache) : cache[i].key = key
    THEN CHOOSE i \in 1..Len(cache) : cache[i].key = key
    ELSE 0

\* cache_entry_valid without the test of the age
cache_entry_valid_forever(cache, key, t) == cache_position(cache, key) # 0

\* cache_entry_valid with < for <=
cache_entry_valid_strict(cache, key, t) ==
    /\ cache_position(cache, key) # 0
    /\ t - cache[cache_position(cache, key)].timestamp < cache_ttl

\* the test of _get_cached_result: the entry exists and
\* time.time() - item['timestamp'] <= self._cache_ttl
cache_entry_valid(cache, key, t) ==
    /\ cache_position(cache, key) # 0
    /\ t - cache[cache_position(cache, key)].timestamp <= cache_ttl

\* cache_pop that removes nothing
cache_pop_nothing(cache, key) == cache

\* self._search_cache.pop(cache_key, None)
cache_pop(cache, key) ==
    IF cache_position(cache, key) = 0 THEN cache
    ELSE remove_at(cache, cache_position(cache, key))

\* cache_oldest with max for min: the first key of largest timestamp
cache_oldest_max(cache) ==
    CHOOSE i \in 1..Len(cache) :
        /\ \A k \in 1..Len(cache) : cache[i].timestamp >= cache[k].timestamp
        /\ \A k \in 1..(i - 1) : cache[k].timestamp < cache[i].timestamp

\* min(self._search_cache, key=lambda k: ...['timestamp']): the first key, in
\* dict order, of smallest timestamp
cache_oldest(cache) ==
    CHOOSE i \in 1..Len(cache) :
        /\ \A k \in 1..Len(cache) : cache[i].timestamp <= cache[k].timestamp
        /\ \A k \in 1..(i - 1) : cache[k].timestamp > cache[i].timestamp

\* dict[key] = value: in place when the key is present, appended otherwise
cache_set(cache, entry) ==
    IF cache_position(cache, entry.key) = 0 THEN Append(cache, entry)
    ELSE [cache EXCEPT ![cache_position(cache, entry.key)] = entry]

\* One entry of the dict.  nrows and before_reload are not fields of the
\* program: they record the size of the catalog the entry was computed
\* from, and whether load_inventory replaced the catalog since.
CacheEntry(key, result, t, df) ==
    [key |-> key, result |-> result, timestamp |-> t,
     nrows |-> Len(df.rows), before_reload |-> FALSE]

\* _cache_result with > for >= in the test of the capacity
cache_result_late_eviction(cache, key, result, t, df) ==
    cache_set(IF Len(cache) > CacheCapacity THEN remove_at(cache, cache_oldest(cache))
              ELSE cache,
              CacheEntry(key, result, t, df))

\* _cache_result that stores a result only when it is not empty
cache_result_nonempty(cache, key, result, t, df) ==
    IF result = <<>> THEN cache
    ELSE cache_set(IF Len(cache) >= CacheCapacity
                   THEN remove_at(cache, cache_oldest(cache))
                   ELSE cache,
                   CacheEntry(key, result, t, df))

\* _cache_result
cache_result(cache, key, result, t, df) ==
    cache_set(IF Len(cache) >= CacheCapacity THEN remove_at(cache, cache_oldest(cache))
              ELSE cache,
              CacheEntry(key, result, t, df))

\* The record of a call: every field has a default.
Call(op) ==
    [op |-> op, query |-> <<>>, max_results |-> 0, vin |-> "", ok |-> FALSE,
     raised |-> FALSE, hit |-> FALSE, served |-> <<>>, result |-> <<>>,
     stats |-> <<>>, at |-> 0]

\* ------------------------------------------------------------- operations
\* ensure_status that adds the status column without a value
ensure_status_unset(df) ==
    IF "status" \in df.columns THEN df
    ELSE [columns |-> df.columns \cup {"status"},
          rows |-> [i \in 1..Len(df.rows) |-> df.rows[i] @@ ("status" :> "")]]

\* if 'status' not in self.inventory_df.columns: ...['status'] = 'Available'
ensure_status(df) ==
    IF "status" \in df.columns THEN df
    ELSE [columns |-> df.columns \cup {"status"},
          rows |-> [i \in 1..Len(df.rows) |-> df.rows[i] @@ ("status" :> "Available")]]

\* loaded_frame that empties the catalog when the table cannot be read
loaded_frame_reset(file, df) ==
    IF file.exists /\ file.parses THEN ensure_status(read_csv(file)) ELSE EmptyFrame

\* what load_inventory leaves in inventory_df
loaded_frame(file, df) ==
    IF file.exists /\ file.parses THEN ensure_status(read_csv(file)) ELSE df

NoReservations == [v \in Vins |-> <<>>]

\* The two sessions that share the process-wide inventory_manager.
Sessions == {1, 2}

\* No tool has run; CarBotCrewCorrected.__init__; no reserve_vehicle call
\* is under way.
InitChat ==
    /\ tool = [name |-> "", arg |-> <<>>, raised |-> FALSE, response |-> ""]
    /\ crew = [conversation_count |-> 0,
               answered |-> {},
               sales_stage |-> <<"g", "r", "e", "e", "t", "i", "n", "g">>,
               customer_profile |-> [budget_range |-> <<>>,
                                     preferences |-> <<>>,
                                     needs |-> <<>>,
                                     interaction_history |-> <<>>]]
    /\ sessions = [s \in Sessions |-> [pc |-> "idle", vin |-> "", vehicle_idx |-> {},
                                        returned |-> <<>>]]

\* InventoryManager.__init__: the backing table is any of InitialFiles
Init ==
    /\ csv_file \in InitialFiles
    /\ inventory_df = loaded_frame(csv_file, EmptyFrame)
    /\ search_cache = <<>>
    /\ cache_stats = [hits |-> 0, misses |-> 0]
    /\ clock = 0
    /\ calls = 0
    /\ counted = 0
    /\ reserved_at = NoReservations
    /\ last = [op |-> "init", query |-> <<>>, max_results |-> 0, vin |-> "",
               ok |-> FALSE, raised |-> FALSE, hit |-> FALSE, served |-> <<>>,
               result |-> <<>>, stats |-> <<>>, at |-> 0]
    /\ InitChat

\* load_inventory
load_inventory ==
    LET ok == csv_file.exists /\ csv_file.parses
    IN  /\ inventory_df' = loaded_frame(csv_file, inventory_df)
        /\ last' = [Call("load") EXCEPT !.ok = ok]
        /\ search_cache' =
               IF ok THEN [i \in 1..Len(search_cache) |->
                              [search_cache[i] EXCEPT !.before_reload = TRUE]]
               ELSE search_cache
        /\ UNCHANGED <<csv_file, cache_stats, clock, calls, counted, reserved_at>>

\* frame_empty that never holds
frame_empty_never(df) == FALSE

\* DataFrame.empty: no rows (or no columns, and then no rows either)
frame_empty(df) == df.rows = <<>>

\* intelligent_search(query, max_results); an exception of the miss path
\* leaves the method after the expired entry was popped and the miss
\* counted (there is no try in the method)
intelligent_search(query, max_results) ==
    LET cache_key == generate_cache_key(query, max_results, inventory_df)
        pos == cache_position(search_cache, cache_key)
        vehicles == search_pipeline(inventory_df.rows, query, max_results)
        call == [Call("search") EXCEPT !.query = query, !.max_results = max_results,
                                       !.at = clock]
    IN  /\ calls < MaxCalls
        /\ calls' = calls + 1
        /\ counted' = IF inventory_df.rows = <<>> THEN counted ELSE counted + 1
        /\ IF frame_empty(inventory_df)
           THEN /\ last' = call
                /\ UNCHANGED <<search_cache, cache_stats>>
           ELSE IF cache_entry_valid(search_cache, cache_key, clock)
           THEN /\ cache_stats' = [cache_stats EXCEPT !.hits = @ + 1]
                /\ last' = [call EXCEPT !.hit = TRUE,
                                        !.served = <<search_cache[pos]>>,
                                        !.result = search_cache[pos].result]
                /\ UNCHANGED search_cache
           ELSE IF search_raises(inventory_df, query, max_results)
           THEN /\ cache_stats' = [cache_stats EXCEPT !.misses = @ + 1]
                /\ search_cache' = cache_pop(search_cache, cache_key)
                /\ last' = [call EXCEPT !.raised = TRUE]
           ELSE /\ cache_stats' = [cache_stats EXCEPT !.misses = @ + 1]
                /\ search_cache' = cache_result(cache_pop(search_cache, cache_key),
                                                cache_key, vehicles, clock, inventory_df)
                /\ last' = [call EXCEPT !.result = vehicles]
        /\ UNCHANGED <<csv_file, inventory_df, clock, reserved_at>>

\* vin_index with the comparison negated
vin_index_negated(df, vin) == {i \in 1..Len(df.rows) : df.rows[i].vin # vin}

\* the positions of the rows whose vin is vin:
\* self.inventory_df[self.inventory_df['vin'] == vin].index
vin_index(df, vin) == {i \in 1..Len(df.rows) : df.rows[i].vin = vin}

first_of(indices) == CHOOSE i \in indices : \A k \in indices : i <= k

\* What a to_csv that raises leaves at csv_path: the old file (the file
\* could not be opened) or a truncated one (the write stopped half way).
FailedWrites(file) == {file, MalformedFile}

\* reserve_refused without the test of the status
reserve_refused_unchecked(df, idx) ==
    \/ "vin" \notin df.columns
    \/ idx = {}

\* the early returns of reserve_vehicle: a KeyError (caught) on a frame
\* without columns, no row with this vin, or a status other than Available
reserve_refused(df, idx) ==
    \/ "vin" \notin df.columns
    \/ idx = {}
    \/ df.rows[first_of(idx)].status # "Available"

\* reserve_vehicle(vin); written tells whether to_csv succeeds, and left is
\* the file a failed to_csv leaves
reserve_vehicle(vin, written, left) ==
    LET idx == vin_index(inventory_df, vin)
        refused == reserve_refused(inventory_df, idx)
        reserved == [inventory_df EXCEPT !.rows[first_of(idx)].status = "Reserved"]
        call == [Call("reserve") EXCEPT !.vin = vin]
    IN  /\ IF refused
           THEN /\ last' = call
                /\ UNCHANGED <<csv_file, inventory_df, reserved_at>>
           ELSE /\ inventory_df' = reserved
                /\ IF written
                   THEN /\ csv_file' = to_csv(reserved)
                        /\ last' = [call EXCEPT !.ok = TRUE]
                        /\ reserved_at' = [reserved_at EXCEPT ![vin] = Append(@, clock)]
                   ELSE /\ csv_file' = left
                        /\ last' = call
                        /\ UNCHANGED reserved_at
        /\ UNCHANGED <<search_cache, cache_stats, clock, calls, counted>>

\* get_vehicle_by_vin(vin): <<vehicle>>, or <<>> for None; a frame without
\* the vin column raises KeyError
get_vehicle_by_vin(vin) ==
    LET idx == vin_index(inventory_df, vin)
        call == [Call("find") EXCEPT !.vin = vin]
    IN  /\ last' =
               IF "vin" \notin inventory_df.columns THEN [call EXCEPT !.raised = TRUE]
               ELSE IF idx = {} THEN call
               ELSE [call EXCEPT !.ok = TRUE,
                       !.result = <<row_to_vehicle(inventory_df.rows[first_of(idx)])>>]
        /\ UNCHANGED <<csv_file, inventory_df, search_cache, cache_stats, clock, calls, counted,
                       reserved_at>>

count_where(rows, column, values) ==
    Cardinality({i \in 1..Len(rows) : rows[i][column] \in values})

RECURSIVE sum_of(_, _)
sum_of(rows, column) ==
    IF rows = <<>> THEN 0 ELSE Head(rows)[column] + sum_of(Tail(rows), column)

\* round(x) of x = total / n: to the nearest integer, halves to the even one
round_ratio(total, n) ==
    LET q == total \div n
        r == total % n
    IN  IF 2 * r < n THEN q
        ELSE IF 2 * r > n THEN q + 1
        ELSE IF q % 2 = 0 THEN q ELSE q + 1

\* get_inventory_stats, for a frame with the columns of Columns: the counts
\* by status, total, avg_price, body_styles and fuel_efficiency entries
\* (most_popular_make, price_range and luxury_count are left out)
inventory_stats(df) ==
    IF df.rows = <<>> THEN [total |-> 0, available |-> 0, reserved |-> 0]
    ELSE LET body_col ==
                 IF "body_style" \in df.columns THEN "body_style" ELSE "body_styles"
         IN  [available |-> count_where(df.rows, "status", {"Available"}),
              reserved |-> count_where(df.rows, "status", {"Reserved"}),
              total |-> Len(df.rows),
              avg_price |-> round_ratio(sum_of(df.rows, "price"), Len(df.rows)),
              body_styles |-> Cardinality({df.rows[i][body_col] : i \in 1..Len(df.rows)}),
              fuel_efficiency |->
                  count_where(df.rows, "fuel_type",
                              { <<"H", "y", "b", "r", "i", "d">>,
                                <<"E", "l", "e", "c", "t", "r", "i", "c">>,
                                <<"H", "i_", "b", "r", "i", "d", "o">>,
                                <<"E", "l", "e_", "c", "t", "r", "i", "c", "o">> })]

get_inventory_stats ==
    /\ last' = [Call("stats") EXCEPT !.stats = inventory_stats(inventory_df)]
    /\ UNCHANGED <<csv_file, inventory_df, search_cache, cache_stats, clock, calls, counted,
                   reserved_at>>

\* The filters passed to get_advanced_search: none, a text searched in the
\* color column, a (low, high) range of years, a price.
AdvancedFilters ==
    { <<>>,
      "color" :> [kind |-> "str", value |-> <<"R", "O">>],
      "year" :> [kind |-> "tuple", low |-> current_year - 1, high |-> current_year],
      "price" :> [kind |-> "value", value |-> 35000] }

\* one condition of get_advanced_search on one row
advanced_condition(row, k, v) ==
    IF k \in TextColumns /\ v.kind = "str"
    THEN row[k] # NaN /\ str_contains(str_lower(v.value), str_lower(row[k]))
    ELSE IF v.kind = "tuple" THEN v.low <= row[k] /\ row[k] <= v.high
    ELSE row[k] = v.value

\* get_advanced_search filtering self.inventory_df itself instead of a copy
get_advanced_search_in_place(filters) ==
    LET keys == {k \in DOMAIN filters : k \in inventory_df.columns}
        rows == inventory_df.rows
        kept == frame_select(rows, [i \in 1..Len(rows) |->
                                       \A k \in keys : advanced_condition(rows[i], k, filters[k])])
        call == Call("advanced")
    IN  /\ last' =
               IF keys = {} /\ rows # <<>> THEN [call EXCEPT !.raised = TRUE]
               ELSE [call EXCEPT !.result = [i \in 1..Len(kept) |-> row_to_vehicle(kept[i])]]
        /\ inventory_df' = IF keys = {} THEN inventory_df
                           ELSE [inventory_df EXCEPT !.rows = kept]
        /\ UNCHANGED <<csv_file, search_cache, cache_stats, clock, calls, counted, reserved_at>>

\* get_advanced_search(filters); with no condition the frame is indexed by
\* its own index, a KeyError unless it has no row
get_advanced_search(filters) ==
    LET keys == {k \in DOMAIN filters : k \in inventory_df.columns}
        rows == inventory_df.rows
        kept == frame_select(rows, [i \in 1..Len(rows) |->
                                       \A k \in keys : advanced_condition(rows[i], k, filters[k])])
        call == Call("advanced")
    IN  /\ last' =
               IF keys = {} /\ rows # <<>> THEN [call EXCEPT !.raised = TRUE]
               ELSE [call EXCEPT !.result = [i \in 1..Len(kept) |-> row_to_vehicle(kept[i])]]
        /\ UNCHANGED <<csv_file, inventory_df, search_cache, cache_stats, clock, calls, counted,
                       reserved_at>>

\* get_cache_stats; hit_rate_percent in hundredths of a percent
get_cache_stats ==
    LET total == cache_stats.hits + cache_stats.misses
    IN  /\ last' = [Call("cache_stats") EXCEPT !.stats =
                       [hits |-> cache_stats.hits, misses |-> cache_stats.misses,
                        hit_rate_percent |->
                            IF total # 0 THEN round_ratio(cache_stats.hits * 10000, total)
                            ELSE 0,
                        cached_entries |-> Len(search_cache)]]
        /\ UNCHANGED <<csv_file, inventory_df, search_cache, cache_stats, clock, calls, counted,
                       reserved_at>>

\* clear_cache that empties the dict and keeps the counters
clear_cache_keeps_stats ==
    /\ search_cache' = <<>>
    /\ last' = Call("clear")
    /\ counted' = 0
    /\ UNCHANGED <<csv_file, inventory_df, cache_stats, clock, calls, reserved_at>>

\* clear_cache
clear_cache ==
    /\ search_cache' = <<>>
    /\ cache_stats' = [hits |-> 0, misses |-> 0]
    /\ last' = Call("clear")
    /\ counted' = 0
    /\ UNCHANGED <<csv_file, inventory_df, clock, calls, reserved_at>>

\* _apply_filters(self.inventory_df.copy(), criteria), called on its own
apply_filters_call(criteria) ==
    LET raises == filters_raise(inventory_df, criteria)
    IN  /\ last' = [Call("filter") EXCEPT
                       !.stats = criteria,
                       !.raised = raises,
                       !.result = IF raises THEN <<>>
                                  ELSE apply_filters(inventory_df.rows, criteria)]
        /\ UNCHANGED <<csv_file, inventory_df, search_cache, cache_stats, clock, calls,
                       counted, reserved_at>>

\* _calculate_relevance(row, criteria) for the i-th row, called on its own
calculate_relevance_call(i, criteria) ==
    LET row == inventory_df.rows[i]
        raises == relevance_raises(inventory_df.columns, row, criteria)
    IN  /\ last' = [Call("score") EXCEPT
                       !.stats = criteria,
                       !.vin = row.vin,
                       !.raised = raises,
                       !.result = IF raises THEN <<>>
                                  ELSE <<calculate_relevance(row, criteria)>>]
        /\ UNCHANGED <<csv_file, inventory_df, search_cache, cache_stats, clock, calls,
                       counted, reserved_at>>

\* _parse_search_query(query), called on its own
parse_search_query_call(query) ==
    /\ last' = [Call("parse") EXCEPT !.query = query,
                                     !.stats = parse_search_query(query)]
    /\ UNCHANGED <<csv_file, inventory_df, search_cache, cache_stats, clock, calls,
                   counted, reserved_at>>

\* time passes between two calls
Tick ==
    \E t \in Instants :
        /\ t > clock
        /\ clock' = t
        /\ UNCHANGED <<csv_file, inventory_df, search_cache, cache_stats, last, calls, counted,
                       reserved_at>>
        /\ UNCHANGED chat_vars

\* the backing table is replaced from outside the program
replace_table(file) ==
    /\ file # csv_file
    /\ csv_file' = file
    /\ last' = Call("replace_table")
    /\ UNCHANGED <<inventory_df, search_cache, cache_stats, clock, calls, counted, reserved_at>>

ReplaceTable == (\E file \in Files : replace_table(file)) /\ UNCHANGED chat_vars

ReplaceFaulty == (\E file \in FaultyFiles : replace_table(file)) /\ UNCHANGED chat_vars

ReplaceInitial == (\E file \in InitialFiles : replace_table(file)) /\ UNCHANGED chat_vars

Load == load_inventory /\ UNCHANGED chat_vars

Search ==
    /\ \E q \in Queries, k \in MaxResultsChoices : intelligent_search(q, k)
    /\ UNCHANGED chat_vars

Reserve ==
    /\ \E vin \in Vins, written \in BOOLEAN, left \in FailedWrites(csv_file) :
          reserve_vehicle(vin, written, left)
    /\ UNCHANGED chat_vars

FindByVin == (\E vin \in Vins : get_vehicle_by_vin(vin)) /\ UNCHANGED chat_vars

Stats == get_inventory_stats /\ UNCHANGED chat_vars

AdvancedSearch == (\E f \in AdvancedFilters : get_advanced_search(f)) /\ UNCHANGED chat_vars

CacheStats == get_cache_stats /\ UNCHANGED chat_vars

ClearCache == clear_cache /\ UNCHANGED chat_vars

ApplyFilters ==
    /\ \E criteria \in CriteriaRecords : apply_filters_call(criteria)
    /\ UNCHANGED chat_vars

CalculateRelevance ==
    /\ \E i \in 1..Len(inventory_df.rows), criteria \in CriteriaRecords :
          calculate_relevance_call(i, criteria)
    /\ UNCHANGED chat_vars

ParseSearchQuery ==
    /\ \E query \in ParseQueries : parse_search_query_call(query)
    /\ UNCHANGED chat_vars

\* The calls that change the store or the cache, and the clock.
Next ==
    \/ Load
    \/ Search
    \/ Reserve
    \/ ClearCache
    \/ Tick

Spec == Init /\ [][Next]_vars

\* Every call of the class, on a clock that stands still.
NextCalls ==
    \/ Load
    \/ Search
    \/ Reserve
    \/ FindByVin
    \/ Stats
    \/ AdvancedSearch
    \/ CacheStats
    \/ ClearCache

SpecCalls == Init /\ [][NextCalls]_vars

\* Searches and reloads over a backing table that is replaced from outside.
NextReload ==
    \/ Load
    \/ Search
    \/ Tick
    \/ ReplaceTable

SpecReload == Init /\ [][NextReload]_vars

\* Loads and lookups over a backing table that is replaced from outside.
NextLoad ==
    \/ Load
    \/ FindByVin
    \/ Stats
    \/ ReplaceTable

SpecLoad == Init /\ [][NextLoad]_vars

\* Searches over a backing table that goes missing, unparsable or empty.
NextOutage ==
    \/ Load
    \/ Search
    \/ ReplaceInitial

SpecOutage == Init /\ [][NextOutage]_vars

\* The store started on one of PureTables.
InitPure ==
    /\ csv_file \in {TableFile(t) : t \in PureTables}
    /\ inventory_df = loaded_frame(csv_file, EmptyFrame)
    /\ search_cache = <<>>
    /\ cache_stats = [hits |-> 0, misses |-> 0]
    /\ clock = 0
    /\ calls = 0
    /\ counted = 0
    /\ reserved_at = NoReservations
    /\ last = Call("init")
    /\ InitChat

\* ------------------------------------------------------- profile analyzer
\* f"{n:,}": the decimal digits of n >= 0 in groups of three
RECURSIVE format_thousands(_)
format_thousands(n) ==
    LET group == str_of_int(n % 1000)
        padded == [i \in 1..(3 - Len(group)) |-> "0"] \o group
    IN  IF n < 1000 THEN str_of_int(n)
        ELSE format_thousands(n \div 1000) \o <<",">> \o padded

\* The first pattern of PATTERNS['budget'] that re.search finds in text and
\* the number of its group 1, as <<position of the pattern, int(group 1)>>,
\* or <<>> when none matches:
\*   r'(\d+)\s*mil', r'(\d+)\s*k', r'hasta\s*(\d+)', r'máximo\s*(\d+)',
\*   r'presupuesto.*(\d+)'
\* \d+ is greedy and takes the whole run of digits; .* is greedy too and
\* leaves to (\d+) the last digit of the text.
budget_match(text) ==
    LET lit_at(lit, i) ==
            /\ i + Len(lit) - 1 <= Len(text)
            /\ SubSeq(text, i, i + Len(lit) - 1) = lit
        skip(j) == CHOOSE k \in j..(Len(text) + 1) :
                       /\ \A m \in j..(k - 1) : text[m] = " "
                       /\ k = Len(text) + 1 \/ text[k] # " "
        least(set) == CHOOSE i \in set : \A k \in set : i <= k
        most(set) == CHOOSE i \in set : \A k \in set : i >= k
        suffixed(lit) ==
            LET runs == {i \in 1..Len(text) :
                            /\ IsDigit(text[i])
                            /\ lit_at(lit, skip(i + Len(digit_run(text, i))))}
            IN  IF runs = {} THEN <<>> ELSE <<int_of(digit_run(text, least(runs)))>>
        prefixed(lit) ==
            LET runs == {i \in 1..Len(text) :
                            /\ lit_at(lit, i)
                            /\ skip(i + Len(lit)) <= Len(text)
                            /\ IsDigit(text[skip(i + Len(lit))])}
            IN  IF runs = {} THEN <<>>
                ELSE <<int_of(digit_run(text, skip(least(runs) + Len(lit))))>>
        trailed(lit) ==
            LET digits == {d \in 1..Len(text) :
                              /\ IsDigit(text[d])
                              /\ \E i \in 1..d : lit_at(lit, i) /\ i + Len(lit) <= d}
            IN  IF digits = {} THEN <<>> ELSE <<DigitVal[text[most(digits)]]>>
        m1 == suffixed(<<"m", "i", "l">>)
        m2 == suffixed(<<"k">>)
        m3 == prefixed(<<"h", "a", "s", "t", "a">>)
        m4 == prefixed(<<"m", "a_", "x", "i", "m", "o">>)
        m5 == trailed(<<"p", "r", "e", "s", "u", "p", "u", "e", "s", "t", "o">>)
    IN  IF m1 # <<>> THEN <<1, m1[1]>>
        ELSE IF m2 # <<>> THEN <<2, m2[1]>>
        ELSE IF m3 # <<>> THEN <<3, m3[1]>>
        ELSE IF m4 # <<>> THEN <<4, m4[1]>>
        ELSE IF m5 # <<>> THEN <<5, m5[1]>>
        ELSE <<>>

\* ProfileAnalyzer.analyze_input: the updates, with <<>> for a key that the
\* final comprehension drops (None or an empty list)
analyze_input(user_input) ==
    LET text == str_lower(user_input)
        m == budget_match(text)
        factor == IF any_word_in({<<"m", "i", "l">>, <<"k">>}, text) THEN 1000 ELSE 1
        vehicles == << <<"s", "u", "v">>, <<"s", "e", "d", "a", "n">>, <<"p", "i", "c", "k", "u", "p">>, <<"c", "a", "m", "i", "o", "n", "e", "t", "a">>, <<"d", "e", "p", "o", "r", "t", "i", "v", "o">>,
                       <<"c", "o", "m", "p", "a", "c", "t", "o">>, <<"h", "a", "t", "c", "h", "b", "a", "c", "k">> >>
        needs == << <<<<"f", "a", "m", "i", "l", "i", "a">>, <<"u", "s", "o", " ", "f", "a", "m", "i", "l", "i", "a", "r">>>>,
                    <<<<"t", "r", "a", "b", "a", "j", "o">>, <<"u", "s", "o", " ", "c", "o", "m", "e", "r", "c", "i", "a", "l">>>>,
                    <<<<"c", "i", "u", "d", "a", "d">>, <<"u", "s", "o", " ", "u", "r", "b", "a", "n", "o">>>>,
                    <<<<"c", "a", "r", "r", "e", "t", "e", "r", "a">>, <<"u", "s", "o", " ", "e", "n", " ", "c", "a", "r", "r", "e", "t", "e", "r", "a">>>>,
                    <<<<"s", "e", "g", "u", "r", "o">>, <<"p", "r", "i", "o", "r", "i", "d", "a", "d", " ", "e", "n", " ", "s", "e", "g", "u", "r", "i", "d", "a", "d">>>>,
                    <<<<"e", "c", "o", "n", "o_", "m", "i", "c", "o">>, <<"e", "f", "i", "c", "i", "e", "n", "c", "i", "a", " ", "c", "o", "m", "b", "u", "s", "t", "i", "b", "l", "e">>>> >>
        in_text(v) == str_contains(v, text)
        keyword_in_text(pair) == str_contains(pair[1], text)
        found == SelectSeq(needs, keyword_in_text)
    IN  [budget_range |-> IF m = <<>> THEN <<>>
                          ELSE <<"h", "a", "s", "t", "a", " ", "$">> \o format_thousands(m[2] * factor),
         preferences |-> SelectSeq(vehicles, in_text),
         needs |-> [i \in 1..Len(found) |-> found[i][2]]]

\* ProfileAnalyzer.analyze_input(user_input), called on its own
AnalyzeInput ==
    /\ \E user_input \in
           { <<"Q", "u", "i", "e", "r", "o", " ", "u", "n", " ", "s", "e", "d", "a", "n", " ", "s", "e", "g", "u", "r", "o", " ", "h", "a", "s", "t", "a", " ", "5", "0", "k">>,
             <<"h", "a", "s", "t", "a", " ", "4", "0", "0", "0", "0", " ", "p", "a", "r", "a", " ", "m", "i", " ", "f", "a", "m", "i", "l", "i", "a">>,
             <<"h", "a", "s", "t", "a", " ", "4", "0", "0", "0", "0">>,
             <<"B", "u", "s", "c", "o", " ", "p", "i", "c", "k", "u", "p", " ", "p", "a", "r", "a", " ", "c", "a", "r", "r", "e", "t", "e", "r", "a", ",", " ", "p", "r", "e", "s", "u", "p", "u", "e", "s", "t", "o", " ", "6", "0", " ", "m", "i", "l">>,
             <<"p", "i", "c", "k", "u", "p", " ", "h", "a", "s", "t", "a", " ", "3", "5", "0", "0", "0">>,
             <<"p", "r", "e", "s", "u", "p", "u", "e", "s", "t", "o", " ", "d", "e", " ", "2", "5", "0", "0", "0", " ", "p", "e", "s", "o", "s">>,
             <<"B", "u", "s", "c", "o", " ", "u", "n", " ", "S", "U", "V", " ", "p", "a", "r", "a", " ", "m", "i", " ", "f", "a", "m", "i", "l", "i", "a", ",", " ", "m", "a_", "x", "i", "m", "o", " ", "4", "0", " ", "m", "i", "l", " ", "p", "e", "s", "o", "s">>,
             <<"h", "o", "l", "a">> } :
           last' = [Call("analyze") EXCEPT !.query = user_input,
                                           !.stats = analyze_input(user_input)]
    /\ UNCHANGED <<csv_file, inventory_df, search_cache, cache_stats, clock, calls,
                   counted, reserved_at>>
    /\ UNCHANGED chat_vars

\* The steps of the pipeline and the profile analyzer, each called on its own.
NextPure ==
    \/ ParseSearchQuery
    \/ ApplyFilters
    \/ CalculateRelevance
    \/ AnalyzeInput

SpecPure == InitPure /\ [][NextPure]_vars

\* Searches over the catalogs of PureTables.
NextRank ==
    \/ Search
    \/ ClearCache

SpecRank == InitPure /\ [][NextRank]_vars

\* Searches, some of which raise, over the tables of FaultyFiles.
InitFaulty ==
    /\ csv_file \in FaultyFiles
    /\ inventory_df = loaded_frame(csv_file, EmptyFrame)
    /\ search_cache = <<>>
    /\ cache_stats = [hits |-> 0, misses |-> 0]
    /\ clock = 0
    /\ calls = 0
    /\ counted = 0
    /\ reserved_at = NoReservations
    /\ last = Call("init")
    /\ InitChat

NextFaulty ==
    \/ Load
    \/ Search
    \/ ClearCache
    \/ Tick
    \/ ReplaceFaulty

SpecFaulty == InitFaulty /\ [][NextFaulty]_vars

\* A store over the one-row catalog whose cache was filled by earlier
\* searches 'suv' with max_results 3, 4, ...: size entries, the first older
\* of them made one second before the others.  Every entry counts one miss.
warm_cache(size, older) ==
    [i \in 1..size |->
        [CacheEntry(generate_cache_key(<<"s", "u", "v">>, i + 2, Frame(<<row_V1>>)),
                    search_pipeline(<<row_V1>>, <<"s", "u", "v">>, i + 2),
                    0, Frame(<<row_V1>>))
            EXCEPT !.timestamp = IF i <= older THEN -1 ELSE 0]]

InitWarm ==
    /\ csv_file = TableFile(<<row_V1>>)
    /\ inventory_df = Frame(<<row_V1>>)
    /\ search_cache \in {warm_cache(size, older) :
                            size \in {CacheCapacity - 1, CacheCapacity}, older \in {0, 1}}
    /\ cache_stats = [hits |-> 0, misses |-> Len(search_cache)]
    /\ clock = 0
    /\ calls = 0
    /\ counted = Len(search_cache)
    /\ reserved_at = NoReservations
    /\ last = [op |-> "init", query |-> <<>>, max_results |-> 0, vin |-> "",
               ok |-> FALSE, raised |-> FALSE, hit |-> FALSE, served |-> <<>>,
               result |-> <<>>, stats |-> <<>>, at |-> 0]
    /\ InitChat

SpecWarm == InitWarm /\ [][Next]_vars

\* ------------------------------------------------------------- properties
\* The steps of one operation, whatever its inputs.
ReserveStep(vin) ==
    /\ last'.op = "reserve" /\ last'.vin = vin
    /\ \E written \in BOOLEAN, left \in FailedWrites(csv_file) :
          reserve_vehicle(vin, written, left)

\* the steps of intelligent_search(q, k)
SearchCall(q, k) ==
    /\ calls' = calls + 1
    /\ last'.query = q /\ last'.max_results = k
    /\ intelligent_search(q, k)

SearchStep == \E q \in Queries, k \in MaxResultsChoices : SearchCall(q, k)

\* whether the catalog has a row with this vin
InCatalog(df, vin) == \E i \in 1..Len(df.rows) : df.rows[i].vin = vin

\* the status of the first row with this vin, "" when there is none
StatusOf(df, vin) ==
    IF InCatalog(df, vin)
    THEN df.rows[CHOOSE i \in 1..Len(df.rows) :
                    /\ df.rows[i].vin = vin
                    /\ \A k \in 1..(i - 1) : df.rows[k].vin # vin].status
    ELSE ""

\* C1, as claimed: every reserve(vin) on an Available vehicle returns true
\* and sets its status to Reserved.
C1_AvailableReserveReturnsTrue ==
    [][\A vin \in Vins :
          (ReserveStep(vin) /\ StatusOf(inventory_df, vin) = "Available")
              => (last'.ok /\ StatusOf(inventory_df', vin) = "Reserved")]_vars

\* C1, amended: a reserve(vin) on an Available vehicle returns true exactly
\* when the backing table was written, and then the status is Reserved (a
\* failed write returns false); a reserve(vin) on a vehicle that is not
\* Available, in particular every reserve after one that returned true,
\* returns false; so reserve(vin) returns true at most once.
C1_ReserveTrueAtMostOnce ==
    [][\A vin \in Vins : ReserveStep(vin) =>
          /\ StatusOf(inventory_df, vin) = "Available" =>
                /\ last'.ok <=> csv_file' = to_csv(inventory_df')
                /\ last'.ok => StatusOf(inventory_df', vin) = "Reserved"
                /\ ~last'.ok => csv_file' \in FailedWrites(csv_file)
          /\ StatusOf(inventory_df, vin) # "Available" => ~last'.ok
          /\ reserved_at[vin] # <<>> => ~last'.ok
          /\ Len(reserved_at'[vin]) <= 1]_vars

\* a reserve of V2 returned false after an earlier one had returned true
C1_SecondReserveRefused ==
    /\ last.op = "reserve" /\ last.vin = "V2" /\ ~last.ok
    /\ reserved_at["V2"] # <<>>

\* C2: reserve(vin) with a vin that is not in the catalog returns false and
\* leaves the catalog, the backing table, the cache and the counters as
\* they were.
C2_UnknownVinChangesNothing ==
    [][\A vin \in Vins :
          (ReserveStep(vin) /\ ~InCatalog(inventory_df, vin))
              => /\ ~last'.ok
                 /\ UNCHANGED <<inventory_df, csv_file, search_cache, cache_stats>>]_vars

\* reserve of the unknown V9 on a loaded catalog with a cached search
C2_UnknownVinReserved ==
    /\ last.op = "reserve" /\ last.vin = "V9" /\ ~last.ok
    /\ inventory_df.rows # <<>> /\ search_cache # <<>>

\* C3: when reserve(vin) has returned true, the backing table exists, holds
\* one line per row of the catalog, reads back as the in-memory catalog,
\* and shows vin as Reserved, as the catalog does.
C3_WriteThrough ==
    (last.op = "reserve" /\ last.ok) =>
        /\ csv_file.exists /\ csv_file.parses
        /\ Len(csv_file.lines) = Len(inventory_df.rows)
        /\ read_csv(csv_file) = inventory_df
        /\ StatusOf(read_csv(csv_file), last.vin) = "Reserved"
        /\ StatusOf(inventory_df, last.vin) = "Reserved"

\* reserve has just returned true
C3_ReserveSucceeded == last.op = "reserve" /\ last.ok

\* C4: searches (hit or miss), get_vehicle_by_vin, get_inventory_stats,
\* get_advanced_search (and the cache calls) leave the catalog unchanged;
\* a status changes only in reserve_vehicle or load_inventory; and no call
\* other than load_inventory adds, removes, reorders or otherwise alters a
\* row.
C4_OnlyReserveChangesStatus ==
    [][/\ (\/ SearchStep
           \/ \E vin \in Vins : get_vehicle_by_vin(vin)
           \/ get_inventory_stats
           \/ \E f \in AdvancedFilters : get_advanced_search(f)
           \/ get_cache_stats
           \/ clear_cache) => inventory_df' = inventory_df
       /\ inventory_df' # inventory_df =>
              (load_inventory \/ \E vin \in Vins : ReserveStep(vin))
       /\ ~load_inventory =>
              /\ inventory_df'.columns = inventory_df.columns
              /\ Len(inventory_df'.rows) = Len(inventory_df.rows)
              /\ \A i \in 1..Len(inventory_df.rows) :
                    [inventory_df'.rows[i] EXCEPT !.status = inventory_df.rows[i].status]
                        = inventory_df.rows[i]]_vars

\* an advanced search has returned vehicles from a catalog with a
\* reserved vehicle
C4_ReadAfterReserve ==
    /\ last.op = "advanced" /\ ~last.raised /\ last.result # <<>>
    /\ \E i \in 1..Len(inventory_df.rows) : inventory_df.rows[i].status = "Reserved"

\* the entries of the cache stored under this key
EntriesOf(cache, key) == {cache[i] : i \in {j \in 1..Len(cache) : cache[j].key = key}}

EntrySet(cache) == {cache[i] : i \in 1..Len(cache)}

\* C5: a search is answered from the cache only by an entry of age at most
\* the TTL of 300; an entry found older on lookup is replaced by the
\* recomputed result, stamped with the time of the lookup.
C5_NoExpiredEntryServed ==
    [][\A q \in Queries, k \in MaxResultsChoices :
          (SearchCall(q, k) /\ inventory_df.rows # <<>>) =>
              LET key == generate_cache_key(q, k, inventory_df)
              IN  /\ last'.hit =>
                        \E e \in EntriesOf(search_cache, key) :
                            /\ clock - e.timestamp <= 300
                            /\ last'.served = <<e>>
                            /\ last'.result = e.result
                  /\ (\E e \in EntriesOf(search_cache, key) : clock - e.timestamp > 300) =>
                        /\ ~last'.hit
                        /\ last'.result = search_pipeline(inventory_df.rows, q, k)
                        /\ EntriesOf(search_cache', key) # {}
                        /\ \A e \in EntriesOf(search_cache', key) :
                              e.timestamp = clock /\ e.result = last'.result]_vars

\* two misses left one entry: the second search found the entry of the
\* first expired and stored its result anew
C5_ExpiredEntryReplaced ==
    /\ last.op = "search" /\ ~last.hit /\ last.at > 300
    /\ cache_stats.misses = 2 /\ Len(search_cache) = 1

\* C6: the cache never holds more than 50 entries.
C6_CacheAtMostFifty == Len(search_cache) <= 50

\* a result was stored in a cache that held 50 entries
C6_StoredAtCapacity ==
    /\ Len(search_cache) = 50 /\ cache_stats.misses > 50
    /\ last.op = "search" /\ ~last.hit

C8_RepeatedSearchIsAHit ==
    [][\A q \in Queries, k \in MaxResultsChoices :
          ( /\ SearchCall(q, k)
            /\ last.op = "search" /\ last.query = q /\ last.max_results = k
            /\ clock - last.at <= 300 )
              => (last'.hit /\ last'.result = last.result)]_vars

\* C8, amended: of two searches (q, k) with no other call in between, on a
\* non-empty catalog the second is a cache hit (hits + 1, nothing else
\* changed) returning the list the first returned, provided the entry is
\* still of age at most 300 at the second call; on an empty catalog both
\* return the empty list and the cache and the counters are not touched.
C8_RepeatedSearchWithinEntryTTL ==
    [][\A q \in Queries, k \in MaxResultsChoices :
          ( /\ SearchCall(q, k)
            /\ last.op = "search" /\ last.query = q /\ last.max_results = k )
              => /\ inventory_df.rows = <<>> =>
                       /\ last.result = <<>> /\ last'.result = <<>> /\ ~last'.hit
                       /\ UNCHANGED <<search_cache, cache_stats>>
                 /\ ( /\ inventory_df.rows # <<>>
                      /\ \E e \in EntriesOf(search_cache,
                                            generate_cache_key(q, k, inventory_df)) :
                             clock - e.timestamp <= 300 ) =>
                       /\ last'.hit /\ last'.result = last.result
                       /\ cache_stats' = [cache_stats EXCEPT !.hits = @ + 1]
                       /\ search_cache' = search_cache]_vars

\* a search missed and the same search, 300 seconds later, was a hit
C8_SecondCallHit ==
    /\ last.op = "search" /\ last.hit /\ last.at = 300
    /\ calls = 2 /\ cache_stats = [hits |-> 1, misses |-> 1]
    /\ last.served[1].timestamp = 0
    /\ last.result # <<>>

\* C9: no search is answered from a cache entry created before a
\* load_inventory that replaced the catalog.
C9_NoHitOnEntryBeforeReload ==
    (last.op = "search" /\ last.hit) => ~last.served[1].before_reload

\* a search after the reload of another table of the same size was answered
\* from an entry made before it, with a vehicle the catalog no longer holds
C9_ServedAcrossReload ==
    /\ last.op = "search" /\ last.hit
    /\ last.served[1].before_reload
    /\ \E i \in 1..Len(last.result) : ~InCatalog(inventory_df, last.result[i].vin)

\* C10: a search that returns a vehicle whose reservation succeeded at time
\* t shows it as Available, is a cache hit on an entry created no later
\* than t, and is made no later than t + 300.
C10_StaleOnlyWithinTTL ==
    \A vin \in Vins :
        ( /\ last.op = "search"
          /\ reserved_at[vin] # <<>>
          /\ \E i \in 1..Len(last.result) : last.result[i].vin = vin ) =>
            /\ last.hit
            /\ \A i \in 1..Len(last.result) :
                  last.result[i].vin = vin => last.result[i].status = "Available"
            /\ \A n \in 1..Len(reserved_at[vin]) :
                  /\ last.served[1].timestamp <= reserved_at[vin][n]
                  /\ last.at <= reserved_at[vin][n] + 300

\* a search made after the reservation of V2 returned V2
C10_ReservedVehicleReturned ==
    /\ last.op = "search" /\ last.hit
    /\ reserved_at["V2"] # <<>>
    /\ \E i \in 1..Len(last.result) : last.result[i].vin = "V2"

\* the cache without its entries under this key, in the same order
WithoutKey(cache, key) ==
    LET kept == {i \in 1..Len(cache) : cache[i].key # key}
        nth(n) == CHOOSE i \in kept : Cardinality({j \in kept : j < i}) = n - 1
    IN  [n \in 1..Cardinality(kept) |-> cache[nth(n)]]

\* C11, as claimed: a search whose pipeline raises leaves the cache as it
\* was before the call.
C11_RaisingSearchLeavesCache ==
    [][(SearchStep /\ last'.raised) => search_cache' = search_cache]_vars

\* C11, amended: a search that missed the cache and whose pipeline raises
\* passes the error to its caller and stores no entry: after the call the
\* cache holds no entry under that fingerprint (an expired one was removed
\* by the lookup) and its other entries as before; the miss is counted and
\* the catalog is unchanged.
C11_RaisingSearchStoresNothing ==
    [][\A q \in Queries, k \in MaxResultsChoices :
          SearchCall(q, k) =>
              LET key == generate_cache_key(q, k, inventory_df)
                  fresh == \E e \in EntriesOf(search_cache, key) :
                               clock - e.timestamp <= 300
              IN  /\ ( /\ ~fresh
                       /\ \E i \in 1..Len(inventory_df.rows) :
                             /\ inventory_df.rows[i].body_styles = NaN
                             /\ inventory_df.rows[i].status = "Available"
                       /\ str_contains(<<"f", "a", "m", "i", "l", "i", "a">>, q) )
                        => last'.raised
                  /\ last'.raised =>
                        /\ ~last'.hit /\ last'.result = <<>>
                        /\ EntriesOf(search_cache', key) = {}
                        /\ search_cache' = WithoutKey(search_cache, key)
                        /\ cache_stats' = [cache_stats EXCEPT !.misses = @ + 1]
                        /\ inventory_df' = inventory_df]_vars

\* a search raised on finding its entry expired: the entry is gone
C11_RaisedOnExpiredEntry ==
    /\ last.op = "search" /\ last.raised /\ last.at > 300
    /\ cache_stats.misses = 2
    /\ search_cache = <<>>

\* C12: a search on a catalog with rows adds one to exactly one counter: to
\* hits, changing nothing else, when the entry of its fingerprint is of age
\* at most 300; to misses otherwise, and the result it returns is then
\* stored under the fingerprint with the time of the call.  So hits + misses
\* is the number of such searches since construction or the last clear.
C12_OneCounterPerSearch ==
    /\ [](cache_stats.hits + cache_stats.misses = counted)
    /\ [][\A q \in Queries, k \in MaxResultsChoices :
             (SearchCall(q, k) /\ inventory_df.rows # <<>>) =>
                 LET key == generate_cache_key(q, k, inventory_df)
                     fresh == \E e \in EntriesOf(search_cache, key) :
                                  clock - e.timestamp <= 300
                 IN  /\ last'.hit <=> fresh
                     /\ last'.hit =>
                           /\ cache_stats' = [cache_stats EXCEPT !.hits = @ + 1]
                           /\ UNCHANGED <<search_cache, inventory_df, csv_file>>
                     /\ ~last'.hit =>
                           /\ cache_stats' = [cache_stats EXCEPT !.misses = @ + 1]
                           /\ UNCHANGED <<inventory_df, csv_file>>
                           /\ ~last'.raised =>
                                 /\ Cardinality(EntriesOf(search_cache', key)) = 1
                                 /\ \A e \in EntriesOf(search_cache', key) :
                                       /\ e.timestamp = clock
                                       /\ e.result = last'.result]_vars

\* a miss, a clear_cache, and a search since: two calls made, one counted
C12_CountedSinceClear ==
    /\ last.op = "search" /\ inventory_df.rows # <<>>
    /\ calls = 2 /\ counted = 1
    /\ cache_stats.hits + cache_stats.misses = 1

\* C13: load_inventory returns False exactly when the backing table is
\* missing or cannot be parsed, and the catalog is then what it was before
\* the call; when it returns True the catalog is the whole table, one row
\* per line.
C13_FailedLoadKeepsCatalog ==
    [][(last'.op = "load" /\ load_inventory) =>
          /\ last'.ok <=> (csv_file.exists /\ csv_file.parses)
          /\ ~last'.ok => inventory_df' = inventory_df
          /\ last'.ok =>
                /\ Len(inventory_df'.rows) = Len(csv_file.lines)
                /\ inventory_df'.columns = csv_file.header
                /\ to_csv(inventory_df') = csv_file]_vars

\* a load failed on a table that cannot be parsed and the catalog still has
\* its rows
C13_LoadFailedOnLoadedCatalog ==
    /\ last.op = "load" /\ ~last.ok
    /\ csv_file.exists /\ ~csv_file.parses
    /\ inventory_df.rows # <<>>

\* C14: while the catalog has no row, every search returns the empty list
\* without raising and leaves the cache, the counters and the catalog as
\* they were.
C14_EmptyStoreSearchIsEmpty ==
    [][\A q \in Queries, k \in MaxResultsChoices :
          (SearchCall(q, k) /\ inventory_df.rows = <<>>) =>
              /\ last'.result = <<>>
              /\ ~last'.raised /\ ~last'.hit
              /\ UNCHANGED <<search_cache, cache_stats, counted, inventory_df, csv_file>>]_vars

\* a search on a catalog without rows, the backing table missing or
\* unparsable, with entries of earlier searches in the cache
C14_SearchedEmptyStore ==
    /\ last.op = "search" /\ last.result = <<>> /\ ~last.raised
    /\ inventory_df.rows = <<>>
    /\ ~(csv_file.exists /\ csv_file.parses)
    /\ search_cache # <<>>

\* C15: get_vehicle_by_vin of a vin that is not in the catalog returns None
\* and does not raise, whatever the state of the store.
C15_UnknownVinIsAbsent ==
    (last.op = "find" /\ ~InCatalog(inventory_df, last.vin)) =>
        (~last.raised /\ ~last.ok /\ last.result = <<>>)

\* a lookup on the column-less frame left by a failed load raised
C15_LookupRaisedOnEmptyStore ==
    /\ last.op = "find" /\ last.raised
    /\ inventory_df = EmptyFrame
    /\ ~(csv_file.exists /\ csv_file.parses)

\* the rows at the positions of kept, in the order of rows
RowsAt(rows, kept) ==
    LET nth(n) == CHOOSE i \in kept : Cardinality({j \in kept : j < i}) = n - 1
    IN  [n \in 1..Cardinality(kept) |-> rows[nth(n)]]

C17_MissReturnsTopRanked ==
    [][\A q \in Queries, k \in MaxResultsChoices :
          (SearchCall(q, k) /\ ~last'.hit /\ ~last'.raised /\ inventory_df.rows # <<>>) =>
              LET criteria == parse_search_query(q)
                  cand == apply_filters(inventory_df.rows, criteria)
                  score(c) == calculate_relevance(cand[c], criteria)
                  res == last'.result
                  Ranked(pos) ==
                      /\ \A i \in 1..Len(res) : res[i] = Vehicle(cand[pos[i]])
                      /\ \A i, j \in 1..Len(res) :
                            i < j => \/ score(pos[i]) > score(pos[j])
                                     \/ /\ score(pos[i]) = score(pos[j])
                                        /\ pos[i] < pos[j]
                      /\ \A c \in 1..Len(cand) :
                            (\A i \in 1..Len(res) : pos[i] # c) =>
                                \A i \in 1..Len(res) : score(pos[i]) >= score(c)
              IN  /\ Len(res) = IF k < Len(cand) THEN k ELSE Len(cand)
                  /\ \E pos \in [1..Len(res) -> 1..Len(cand)] : Ranked(pos)
      ]_vars

\* a miss on four vehicles returned the three Available ones: the highest
\* score first though second in the catalog, then two of equal score in
\* catalog order
C17_RankedWithTie ==
    /\ last.op = "search" /\ ~last.hit /\ ~last.raised
    /\ Len(inventory_df.rows) = 4
    /\ last.max_results = 3
    /\ Len(last.result) = 3
    /\ last.result[1].vin = "V1"
    /\ last.result[2].vin = "V3"
    /\ last.result[3].vin = "V5"

\* whether the cell holds a text that contains word, ignoring case
CellContains(word, cell) ==
    /\ cell # NaN
    /\ \E a \in 1..Len(cell), b \in 1..Len(cell) : str_lower(SubSeq(cell, a, b)) = word

BudgetPhrases ==
    << <<"b", "a", "j", "o", " ">>,
       <<"m", "e", "n", "o", "s", " ", "d", "e", " ">>,
       <<"h", "a", "s", "t", "a", " ">>,
       <<"m", "a_", "x", "i", "m", "o", " ">>,
       <<"p", "r", "e", "s", "u", "p", "u", "e", "s", "t", "o", " ">> >>

\* the positions of text where the phrase stands followed by a digit
PhraseAt(phrase, text) ==
    {i \in 1..Len(text) :
        /\ i + Len(phrase) <= Len(text)
        /\ \A j \in 1..Len(phrase) : text[i + j - 1] = phrase[j]
        /\ text[i + Len(phrase)] \in {"0", "1", "2", "3", "4", "5", "6", "7", "8", "9"}}

\* whether n is the number written at position i of text: the longest run
\* of digits that starts there
NumberAt(n, i, text) ==
    \E e \in i..Len(text) :
        /\ \A j \in i..e : IsDigit(text[j])
        /\ e = Len(text) \/ ~IsDigit(text[e + 1])
        /\ n = int_of(SubSeq(text, i, e))

\* C19: the budget ceiling is the number captured by the pattern that comes
\* first in the order bajo, menos de, hasta, máximo, presupuesto among the
\* patterns the query matches, whatever the order of the phrases in the text,
\* and there is none when no pattern matches; a query made of 'hasta 40000'
\* and 'máximo 50000' yields 40000.
C19_FirstPatternInOrderWins ==
    last.op = "parse" =>
        LET text == str_lower(last.query)
            criteria == last.stats
            matching == {p \in 1..Len(BudgetPhrases) : PhraseAt(BudgetPhrases[p], text) # {}}
        IN  /\ "budget_max" \in DOMAIN criteria <=> matching # {}
            /\ matching # {} =>
                  LET p == CHOOSE x \in matching : \A y \in matching : x <= y
                      at == PhraseAt(BudgetPhrases[p], text)
                      i == CHOOSE x \in at : \A y \in at : x <= y
                  IN  NumberAt(criteria.budget_max, i + Len(BudgetPhrases[p]), text)
            /\ ( /\ Len(text) = 24
                 /\ str_contains(<<"h", "a", "s", "t", "a", " ", "4", "0", "0", "0", "0">>, text)
                 /\ str_contains(<<"m", "a_", "x", "i", "m", "o", " ", "5", "0", "0", "0", "0">>, text) )
               => criteria.budget_max = 40000

\* 'MÁXIMO 50000 HASTA 40000', where the later pattern comes first in the
\* text, was parsed to a budget of 40000
C19_LaterPhraseFirstInOrder ==
    /\ last.op = "parse"
    /\ last.query = <<"M", "A_", "X", "I", "M", "O", " ", "5", "0", "0", "0", "0", " ", "H", "A", "S", "T", "A", " ", "4", "0", "0", "0", "0">>
    /\ "budget_max" \in DOMAIN last.stats
    /\ last.stats.budget_max = 40000

\* the body styles in declaration order, as they appear in the criteria,
\* each with its synonyms
StyleOrder ==
    << [value |-> <<"S", "U", "V">>,
        words |-> { <<"s", "u", "v">>,
                   <<"c", "a", "m", "i", "o", "n", "e", "t", "a">>,
                   <<"t", "o", "d", "o", "t", "e", "r", "r", "e", "n", "o">> }],
       [value |-> <<"S", "E", "D", "A", "N">>,
        words |-> { <<"s", "e", "d", "a", "n">>,
                   <<"s", "e", "d", "a_", "n">> }],
       [value |-> <<"H", "A", "T", "C", "H", "B", "A", "C", "K">>,
        words |-> { <<"h", "a", "t", "c", "h", "b", "a", "c", "k">>,
                   <<"c", "o", "m", "p", "a", "c", "t", "o">> }],
       [value |-> <<"T", "R", "U", "C", "K">>,
        words |-> { <<"t", "r", "u", "c", "k">>,
                   <<"p", "i", "c", "k", "u", "p">>,
                   <<"c", "a", "m", "i", "o_", "n">> }],
       [value |-> <<"C", "O", "N", "V", "E", "R", "T", "I", "B", "L", "E">>,
        words |-> { <<"c", "o", "n", "v", "e", "r", "t", "i", "b", "l", "e">>,
                   <<"d", "e", "s", "c", "a", "p", "o", "t", "a", "b", "l", "e">> }],
       [value |-> <<"C", "O", "U", "P", "E">>,
        words |-> { <<"c", "o", "u", "p", "e">>,
                   <<"c", "o", "u", "p", "e_">>,
                   <<"d", "e", "p", "o", "r", "t", "i", "v", "o">> }] >>

\* the colors in declaration order, as they appear in the criteria, each
\* with its synonyms
ColorOrder ==
    << [value |-> <<"R", "o", "j", "o">>,
        words |-> { <<"r", "o", "j", "o">>,
                   <<"r", "e", "d">> }],
       [value |-> <<"A", "z", "u", "l">>,
        words |-> { <<"a", "z", "u", "l">>,
                   <<"b", "l", "u", "e">> }],
       [value |-> <<"N", "e", "g", "r", "o">>,
        words |-> { <<"n", "e", "g", "r", "o">>,
                   <<"b", "l", "a", "c", "k">> }],
       [value |-> <<"B", "l", "a", "n", "c", "o">>,
        words |-> { <<"b", "l", "a", "n", "c", "o">>,
                   <<"w", "h", "i", "t", "e">> }],
       [value |-> <<"G", "r", "i", "s">>,
        words |-> { <<"g", "r", "i", "s">>,
                   <<"g", "r", "a", "y">>,
                   <<"g", "r", "e", "y">> }],
       [value |-> <<"P", "l", "a", "t", "a">>,
        words |-> { <<"p", "l", "a", "t", "a">>,
                   <<"s", "i", "l", "v", "e", "r">> }] >>

\* whether word stands somewhere in text
WordIn(word, text) ==
    \E i \in 1..Len(text) :
        /\ i + Len(word) - 1 <= Len(text)
        /\ \A j \in 1..Len(word) : text[i + j - 1] = word[j]

\* the entries of order that have a synonym in text
Named(order, text) == {n \in 1..Len(order) : \E w \in order[n].words : WordIn(w, text)}

\* whether the criteria hold under key the first entry of order with a
\* synonym in text, and hold nothing under key when there is none
FirstNamed(criteria, key, order, text) ==
    LET named == Named(order, text)
    IN  /\ key \in DOMAIN criteria <=> named # {}
        /\ named # {} =>
              criteria[key] = order[CHOOSE n \in named : \A m \in named : n <= m].value

\* C20: the extracted body style is the first canonical style in the order
\* suv, sedan, hatchback, truck, convertible, coupe that has any synonym in
\* the text, whatever the order of the words in the query; the same rule
\* selects the color.
C20_FirstDeclaredStyleAndColor ==
    last.op = "parse" =>
        /\ FirstNamed(last.stats, "body_style", StyleOrder, str_lower(last.query))
        /\ FirstNamed(last.stats, "color", ColorOrder, str_lower(last.query))

\* 'blue rojo sedan suv', where the word of the later entry comes first in
\* the text for the color and for the style, was parsed to Rojo and SUV
C20_LaterWordFirstInOrder ==
    /\ last.op = "parse"
    /\ last.query = <<"b", "l", "u", "e", " ", "r", "o", "j", "o", " ", "s", "e", "d", "a", "n", " ", "s", "u", "v">>
    /\ Cardinality(Named(StyleOrder, last.query)) = 2
    /\ Cardinality(Named(ColorOrder, last.query)) = 2
    /\ last.stats.body_style = <<"S", "U", "V">>
    /\ last.stats.color = <<"R", "o", "j", "o">>

\* ------------------------------------------- the body_style spelling
\* the rows of a table whose column from is named to
respell_rows(rows, from, to) ==
    [i \in 1..Len(rows) |->
        [c \in (DOMAIN rows[i] \ {from}) \cup {to} |->
            IF c = to THEN rows[i][from] ELSE rows[i][c]]]

\* The backing table of the same vehicles with the body column named
\* body_style.
BodyStyleFile(table) ==
    [TableFile(table) EXCEPT
        !.header = (@ \ {"body_styles"}) \cup {"body_style"},
        !.lines = respell_rows(@, "body_styles", "body_style")]

\* The store started on a table under either spelling: two Available
\* vehicles, or one Reserved vehicle.
InitSpelling ==
    /\ csv_file \in {TableFile(t) : t \in {<<row_V1, row_V2>>, <<row_P3>>}}
                    \cup {BodyStyleFile(t) : t \in {<<row_V1, row_V2>>, <<row_P3>>}}
    /\ inventory_df = loaded_frame(csv_file, EmptyFrame)
    /\ search_cache = <<>>
    /\ cache_stats = [hits |-> 0, misses |-> 0]
    /\ clock = 0
    /\ calls = 0
    /\ counted = 0
    /\ reserved_at = NoReservations
    /\ last = Call("init")
    /\ InitChat

NextSpelling ==
    \/ Search
    \/ FindByVin
    \/ Stats
    \/ ClearCache
    \/ Tick

SpecSpelling == InitSpelling /\ [][NextSpelling]_vars

\* C21: for a backing table whose body column is named body_style, search,
\* find_by_id and stats return what they return for the same table with the
\* column named body_styles, and none of them raises.
C21_EitherSpellingSameResults ==
    "body_style" \in inventory_df.columns =>
        LET rows == respell_rows(inventory_df.rows, "body_style", "body_styles")
            found == {i \in 1..Len(rows) : rows[i].vin = last.vin}
        IN  /\ ~last.raised
            /\ last.op = "search" =>
                  last.result = search_pipeline(rows, last.query, last.max_results)
            /\ last.op = "find" =>
                  last.result = IF found = {} THEN <<>>
                                ELSE <<Vehicle(rows[CHOOSE i \in found :
                                                        \A j \in found : i <= j])>>
            /\ last.op = "stats" =>
                  last.stats = inventory_stats([columns |-> Columns, rows |-> rows])

\* a search for 'SUV' on the two Available vehicles read from a table with
\* the body_style column raised
C21_SearchRaisedOnBodyStyle ==
    /\ "body_style" \in inventory_df.columns
    /\ Len(inventory_df.rows) = 2
    /\ last.op = "search" /\ last.raised
    /\ last.query = <<"S", "U", "V">>

\* ------------------------------------------------- loads and reserves
\* The backing table of the same vehicles without the status column.
StatuslessFile(table) ==
    [TableFile(table) EXCEPT
        !.header = @ \ {"status"},
        !.lines = [i \in 1..Len(@) |-> [c \in DOMAIN @[i] \ {"status"} |-> @[i][c]]]]

\* The store started on a table without status column, on a table with an
\* Available and a Reserved vehicle, or on an unreadable one.
InitStatus ==
    /\ csv_file \in {StatuslessFile(<<row_V1, row_V2>>), TableFile(<<row_V1, row_P3>>),
                     TableFile(<<row_V2, row_V3>>), MalformedFile}
    /\ inventory_df = loaded_frame(csv_file, EmptyFrame)
    /\ search_cache = <<>>
    /\ cache_stats = [hits |-> 0, misses |-> 0]
    /\ clock = 0
    /\ calls = 0
    /\ counted = 0
    /\ reserved_at = NoReservations
    /\ last = Call("init")
    /\ InitChat

NextStatus ==
    \/ Load
    \/ Reserve
    \/ Search
    \/ FindByVin
    \/ Stats

SpecStatus == InitStatus /\ [][NextStatus]_vars

\* C22: in every state reached by loads and reserves, the status of every
\* catalog record is Available or Reserved.
C22_StatusIsAvailableOrReserved ==
    \A i \in 1..Len(inventory_df.rows) :
        inventory_df.rows[i].status \in {"Available", "Reserved"}

\* a load of a table without status column after a reserve of V2 whose
\* write failed: both vehicles are Available again
C22_LoadedWithoutStatusColumn ==
    /\ last.op = "load" /\ last.ok
    /\ "status" \notin csv_file.header
    /\ Len(inventory_df.rows) = 2
    /\ \A i \in 1..2 : inventory_df.rows[i].status = "Available"

\* C24: whenever reserve(vin) returns false, for any reason including a
\* failed write of the backing table, no in-memory status has changed, so
\* that after every reserve call the in-memory status of each vehicle equals
\* its status in the backing table.
C24_RefusedReserveChangesNoStatus ==
    [][\A vin \in Vins : ReserveStep(vin) =>
          /\ ~last'.ok => inventory_df' = inventory_df
          /\ (csv_file'.exists /\ csv_file'.parses /\ "status" \in csv_file'.header
              /\ to_csv(inventory_df) = csv_file)
             => \A v \in Vins :
                    StatusOf(inventory_df', v) = StatusOf(read_csv(csv_file'), v)]_vars

\* reserve('V2') returned false because the write failed: V2 is Reserved in
\* memory and Available in the backing table
C24_ReservedInMemoryOnly ==
    /\ last.op = "reserve" /\ last.vin = "V2" /\ ~last.ok
    /\ StatusOf(inventory_df, "V2") = "Reserved"
    /\ csv_file.exists /\ csv_file.parses
    /\ StatusOf(read_csv(csv_file), "V2") = "Available"
    /\ reserved_at["V2"] = <<>>

\* ------------------------------------------------------------ the tools
\* a try block without handler: the exception leaves _run
except_nothing(raised) == raised

\* try: ... except Exception as e: return error_msg -- whether an exception
\* raised inside the try block leaves _run
except_Exception(raised) == FALSE

\* InventorySearchTool._run(query, max_results): the search, then the
\* formatted results, the statistics and the recommendation, which reads
\* top_vehicle.body_style.upper()
InventorySearchTool_run(query, max_results) ==
    /\ intelligent_search(query, max_results)
    /\ LET vehicles == last'.result
           raised == \/ last'.raised
                     \/ vehicles # <<>> /\ vehicles[1].body_style = NaN
       IN  tool' = [name |-> "InventorySearchTool", arg |-> query,
                    raised |-> except_Exception(raised),
                    response |-> IF raised THEN "error"
                                 ELSE IF vehicles = <<>> THEN "not_found"
                                 ELSE "results"]
    /\ UNCHANGED <<crew, sessions>>

\* VehicleReservationTool._run(vin): get_vehicle_by_vin, the status test,
\* then reserve_vehicle
VehicleReservationTool_run(vin, written, left) ==
    LET idx == vin_index(inventory_df, vin)
        available == /\ "vin" \in inventory_df.columns
                     /\ idx # {}
                     /\ inventory_df.rows[first_of(idx)].status = "Available"
    IN  /\ IF available
           THEN /\ reserve_vehicle(vin, written, left)
                /\ tool' = [name |-> "VehicleReservationTool", arg |-> vin,
                            raised |-> FALSE,
                            response |-> IF last'.ok THEN "reserved"
                                         ELSE "technical_error"]
           ELSE /\ get_vehicle_by_vin(vin)
                /\ tool' = [name |-> "VehicleReservationTool", arg |-> vin,
                            raised |-> except_Exception(last'.raised),
                            response |-> IF last'.raised THEN "error"
                                         ELSE IF last'.result = <<>> THEN "not_found"
                                         ELSE "not_available"]
        /\ UNCHANGED <<crew, sessions>>

\* ConsultManagerTool._run(request): the request is routed by its keywords
\* to _handle_inventory_search, _handle_vin_request, _handle_pricing_request,
\* _handle_vehicle_details or _handle_general_consultation
ConsultManagerTool_run(request) ==
    LET request_lower == str_lower(request)
        route ==
            IF any_word_in({ <<"b", "u", "s", "c", "a">>,
                               <<"b", "u", "s", "c", "a", "r">>,
                               <<"e", "n", "c", "u", "e", "n", "t", "r", "a">>,
                               <<"m", "o", "s", "t", "r", "a", "r">>,
                               <<"o", "p", "c", "i", "o", "n", "e", "s">>,
                               <<"v", "e", "h", "i_", "c", "u", "l", "o", "s">>,
                               <<"a", "u", "t", "o", "s">> }, request_lower)
            THEN "search"
            ELSE IF str_contains(<<"v", "i", "n">>, request_lower) THEN "vin"
            ELSE IF any_word_in({ <<"p", "r", "e", "c", "i", "o">>,
                                    <<"d", "e", "s", "c", "u", "e", "n", "t", "o">>,
                                    <<"a", "u", "t", "o", "r", "i", "z", "a">>,
                                    <<"o", "f", "e", "r", "t", "a">>,
                                    <<"c", "o", "s", "t", "o">> }, request_lower)
            THEN "pricing"
            ELSE IF any_word_in({ <<"d", "e", "t", "a", "l", "l", "e", "s">>,
                                    <<"c", "a", "r", "a", "c", "t", "e", "r", "i_", "s", "t", "i", "c", "a", "s">>,
                                    <<"e", "s", "p", "e", "c", "i", "f", "i", "c", "a", "c", "i", "o", "n", "e", "s">>,
                                    <<"i", "n", "f", "o", "r", "m", "a", "c", "i", "o_", "n">> }, request_lower)
            THEN "details"
            ELSE "general"
        \* re.search(r'(del|de el)\s+([a-zA-Z0-9\s-]+)', request, re.IGNORECASE)
        literals == << <<"d", "e", "l">>, <<"d", "e", " ", "e", "l">> >>
        in_class(c) ==
            \/ IsDigit(c) \/ c = "-" \/ c = " "
            \/ lower_char(c) \in {UpperToLower[u] : u \in DOMAIN UpperToLower}
                                 \ {"a_", "e_", "i_", "o_", "u_"}
        spaces(i) == CHOOSE n \in 0..Len(request) :
                         /\ \A j \in 0..(n - 1) : i + j <= Len(request) /\ request[i + j] = " "
                         /\ i + n > Len(request) \/ request[i + n] # " "
        in_class_run(i) == CHOOSE n \in 0..Len(request) :
                         /\ \A j \in 0..(n - 1) : i + j <= Len(request) /\ in_class(request[i + j])
                         /\ i + n > Len(request) \/ ~in_class(request[i + n])
        matches(i, l) ==
            /\ i + Len(literals[l]) - 1 <= Len(request)
            /\ SubSeq(request_lower, i, i + Len(literals[l]) - 1) = literals[l]
            /\ spaces(i + Len(literals[l])) >= 1
            /\ \/ in_class_run(i + Len(literals[l]) + spaces(i + Len(literals[l]))) >= 1
               \/ spaces(i + Len(literals[l])) >= 2
        found == {i \in 1..Len(request) : \E l \in 1..2 : matches(i, l)}
        group_2 ==
            LET i == CHOOSE x \in found : \A y \in found : x <= y
                l == CHOOSE x \in 1..2 : matches(i, x) /\ \A y \in 1..(x - 1) : ~matches(i, y)
                r == i + Len(literals[l]) + spaces(i + Len(literals[l]))
            IN  IF in_class_run(r) >= 1 THEN SubSeq(request, r, r + in_class_run(r) - 1)
                ELSE <<" ">>
        answer(response) ==
            [name |-> "ConsultManagerTool", arg |-> request, raised |-> FALSE,
             response |-> response]
        searched(first_only) ==
            tool' = [answer(IF last'.raised THEN "error"
                            ELSE IF last'.result = <<>> THEN "not_found"
                            ELSE IF first_only THEN "vehicle" ELSE "results")
                     EXCEPT !.raised = except_Exception(last'.raised)]
    IN  /\ CASE route = "search" -> intelligent_search(request, 8) /\ searched(FALSE)
             [] route = "vin" /\ found # {} ->
                    intelligent_search(str_strip(group_2), 3) /\ searched(TRUE)
             [] route = "details" -> intelligent_search(request, 1) /\ searched(TRUE)
             [] OTHER ->
                    /\ tool' = answer(IF route = "vin" THEN "not_identified" ELSE route)
                    /\ UNCHANGED <<csv_file, inventory_df, search_cache, cache_stats, clock,
                                   last, calls, counted, reserved_at>>
        /\ UNCHANGED <<crew, sessions>>

\* The store started without backing table or on one of FaultyFiles.
InitTools ==
    /\ csv_file \in {MissingFile} \cup FaultyFiles
    /\ inventory_df = loaded_frame(csv_file, EmptyFrame)
    /\ search_cache = <<>>
    /\ cache_stats = [hits |-> 0, misses |-> 0]
    /\ clock = 0
    /\ calls = 0
    /\ counted = 0
    /\ reserved_at = NoReservations
    /\ last = Call("init")
    /\ InitChat

\* The tools the agent calls, with the requests it makes of them.
NextTools ==
    \/ \E q \in Queries, k \in MaxResultsChoices : InventorySearchTool_run(q, k)
    \/ \E vin \in Vins, written \in BOOLEAN, left \in FailedWrites(csv_file) :
          VehicleReservationTool_run(vin, written, left)
    \/ \E request \in { <<"B", "u", "s", "c", "a", " ", "a", "u", "t", "o", " ", "f", "a", "m", "i", "l", "i", "a", "r">>,
                        <<"V", "I", "N", " ", "d", "e", "l", " ", "S", "U", "V">>,
                        <<"v", "i", "n">>,
                        <<"p", "r", "e", "c", "i", "o">>,
                        <<"d", "e", "t", "a", "l", "l", "e", "s", " ", "s", "u", "v">>,
                        <<"h", "o", "l", "a">> } :
          ConsultManagerTool_run(request)

SpecTools == InitTools /\ [][NextTools]_vars

\* C23: a fault raised inside search, filtering, scoring or reservation is
\* caught at the tool boundary: ConsultManagerTool._run,
\* InventorySearchTool._run and VehicleReservationTool._run always return a
\* text and never let an exception reach the chat layer.
C23_ToolsAlwaysAnswer ==
    /\ [](tool.name # "" => (~tool.raised /\ tool.response # ""))
    /\ [][(tool' # tool /\ last' # last /\ last'.raised) => tool'.response = "error"]_vars

\* a search that raised inside the store (a vehicle without body style,
\* scored under the family flag) was answered by InventorySearchTool with
\* its error text
C23_SearchFaultAnswered ==
    /\ tool.name = "InventorySearchTool" /\ ~tool.raised /\ tool.response = "error"
    /\ last.op = "search" /\ last.raised

\* C25: with no reserve and no reload since the entry was created, the list
\* returned on a cache hit is the list the uncached pipeline returns for the
\* query actually passed, also when the entry was created by a query that
\* differs from it in letter case or in leading and trailing whitespace.
C25_HitEqualsPipeline ==
    [][\A q \in Queries, k \in MaxResultsChoices :
          (SearchCall(q, k) /\ last'.hit) =>
              /\ ~search_raises(inventory_df, q, k)
              /\ last'.result = search_pipeline(inventory_df.rows, q, k)
              /\ \A other \in Queries :
                    str_strip(str_lower(other)) = str_strip(str_lower(q)) =>
                        last'.result = search_pipeline(inventory_df.rows, other, k)]_vars

\* the second of two searches was ' suv ' and was served a vehicle from the
\* cache
C25_RespelledQueryServed ==
    /\ last.op = "search" /\ last.hit
    /\ last.query = <<" ", "s", "u", "v", " ">>
    /\ last.max_results = 3
    /\ Len(last.result) = 3
    /\ calls = 2 /\ cache_stats = [hits |-> 1, misses |-> 1]

\* C27: a search whose filter leaves no candidate stores an empty list under
\* its key, and a repeat of the search within the TTL is a hit (hits + 1,
\* misses unchanged) that returns the empty list and leaves the cache as it
\* is.
C27_EmptyResultIsCached ==
    [][\A q \in Queries, k \in MaxResultsChoices :
          (SearchCall(q, k) /\ inventory_df.rows # <<>>) =>
              LET key == generate_cache_key(q, k, inventory_df)
              IN  /\ ( /\ ~last'.hit /\ ~last'.raised
                       /\ apply_filters(inventory_df.rows, parse_search_query(q)) = <<>> )
                     => \E e \in EntriesOf(search_cache', key) :
                            e.result = <<>> /\ e.timestamp = clock
                  /\ (\E e \in EntriesOf(search_cache, key) :
                          e.result = <<>> /\ clock - e.timestamp <= 300)
                     => /\ last'.hit
                        /\ last'.result = <<>>
                        /\ cache_stats' = [cache_stats EXCEPT !.hits = @ + 1]
                        /\ search_cache' = search_cache]_vars

\* 'auto familiar' on a catalog whose only vehicle is Reserved was served
\* its empty list from the cache, 300 seconds after it was stored
C27_EmptyListServed ==
    /\ last.op = "search" /\ last.hit /\ last.result = <<>>
    /\ inventory_df.rows # <<>>
    /\ last.served # <<>> /\ last.at - last.served[1].timestamp = 300
    /\ cache_stats = [hits |-> 1, misses |-> 1]

\* One statement of VehicleReservationTool._run(vin) in session s, which
\* calls reserve_vehicle(vin) on the module's one inventory_manager. The
\* sessions run in threads of one process and no statement holds a lock, so
\* the statements of two sessions interleave. pc is the statement reached:
\*   idle      -> get_vehicle_by_vin(vin) and the tool's tests of the vehicle
\*   vehicle   -> vehicle_idx = ...index, and the test vehicle_idx.empty
\*   index     -> the test of the status at vehicle_idx[0]
\*   available -> the assignment of 'Reserved'
\*   assigned  -> to_csv, and return True (return False when to_csv raises)
reserve_vehicle_step(s, vin, written, left) ==
    LET me == sessions[s]
        found == vin_index(inventory_df, vin)
        at(next) == sessions' = [sessions EXCEPT ![s].pc = next]
    IN  /\ me.pc \in {"idle", "vehicle", "index", "available", "assigned"}
        /\ CASE me.pc = "idle" ->
                   /\ sessions' = [sessions EXCEPT ![s].vin = vin, ![s].pc =
                          IF \/ "vin" \notin inventory_df.columns
                             \/ found = {}
                             \/ row_to_vehicle(inventory_df.rows[first_of(found)]).status
                                    # "Available"
                          THEN "answered" ELSE "vehicle"]
                   /\ UNCHANGED <<csv_file, inventory_df>>
             [] me.pc = "vehicle" ->
                   LET idx == vin_index(inventory_df, me.vin)
                   IN  /\ sessions' = [sessions EXCEPT ![s] =
                              IF idx = {}
                              THEN [me EXCEPT !.pc = "returned", !.returned = <<FALSE>>]
                              ELSE [me EXCEPT !.pc = "index", !.vehicle_idx = idx]]
                       /\ UNCHANGED <<csv_file, inventory_df>>
             [] me.pc = "index" ->
                   /\ sessions' = [sessions EXCEPT ![s] =
                          IF inventory_df.rows[first_of(me.vehicle_idx)].status # "Available"
                          THEN [me EXCEPT !.pc = "returned", !.returned = <<FALSE>>]
                          ELSE [me EXCEPT !.pc = "available"]]
                   /\ UNCHANGED <<csv_file, inventory_df>>
             [] me.pc = "available" ->
                   /\ inventory_df' = [inventory_df EXCEPT
                          !.rows[first_of(me.vehicle_idx)].status = "Reserved"]
                   /\ at("assigned")
                   /\ UNCHANGED csv_file
             [] me.pc = "assigned" ->
                   /\ csv_file' = IF written THEN to_csv(inventory_df) ELSE left
                   /\ sessions' = [sessions EXCEPT ![s] =
                          IF written
                          THEN [me EXCEPT !.pc = "returned", !.returned = <<TRUE>>]
                          ELSE [me EXCEPT !.pc = "raised", !.returned = <<FALSE>>]]
                   /\ UNCHANGED inventory_df
        /\ UNCHANGED <<search_cache, cache_stats, clock, calls, counted, reserved_at, last,
                       tool, crew>>

NextSessions ==
    \E s \in Sessions, vin \in Vins, written \in BOOLEAN :
        \E left \in FailedWrites(csv_file) : reserve_vehicle_step(s, vin, written, left)

SpecSessions == InitStatus /\ [][NextSessions]_vars

\* C26, as claimed: when two sessions have called reserve_vehicle for the same
\* vehicle, which each of them saw Available, and both calls have returned
\* without a failed write, exactly one of them returned True.
C26_ExactlyOneReserveSucceeds ==
    \A s1, s2 \in Sessions :
        ( /\ s1 # s2
          /\ sessions[s1].vin = sessions[s2].vin
          /\ sessions[s1].pc = "returned" /\ sessions[s2].pc = "returned" )
        => Cardinality({s \in {s1, s2} : sessions[s].returned = <<TRUE>>}) = 1

\* both sessions were told that they reserved V2
C26_ReservedToTwoCallers ==
    /\ \A s \in Sessions :
          /\ sessions[s].vin = "V2"
          /\ sessions[s].pc = "returned"
          /\ sessions[s].returned = <<TRUE>>
    /\ \E i \in 1..Len(inventory_df.rows) :
          inventory_df.rows[i].vin = "V2" /\ inventory_df.rows[i].status = "Reserved"

\* C30, as claimed: analyze_input reports as budget the number captured by
\* the first matching budget pattern, times 1000 exactly when that number is
\* followed by a 'mil' or 'k' suffix (the first matching pattern is one of
\* the two suffix patterns) and unchanged otherwise.
C30_BudgetScaledBySuffixOnly ==
    last.op = "analyze" =>
        LET m == budget_match(str_lower(last.query))
        IN  m # <<>> =>
                last.stats.budget_range =
                    <<"h", "a", "s", "t", "a", " ", "$">>
                        \o format_thousands(IF m[1] \in {1, 2} THEN m[2] * 1000 ELSE m[2])

\* 'hasta 40000 para mi familia' gave the budget 'hasta $40,000,000'
C30_FamiliaScaledBudget ==
    /\ last.op = "analyze"
    /\ last.query = <<"h", "a", "s", "t", "a", " ", "4", "0", "0", "0", "0", " ", "p", "a", "r", "a", " ", "m", "i", " ", "f", "a", "m", "i", "l", "i", "a">>
    /\ budget_match(str_lower(last.query)) = <<3, 40000>>
    /\ last.stats.budget_range = <<"h", "a", "s", "t", "a", " ", "$", "4", "0", ",", "0", "0", "0", ",", "0", "0", "0">>

\* ------------------------------------------------------------------ crew
\* The calls of process_customer_input of one session.
MaxMessages == 12

\* _add_to_history that keeps the first 10 interactions
add_to_history_oldest(history, entry) ==
    LET appended == Append(history, entry)
    IN  IF Len(appended) > 10 THEN SubSeq(appended, 1, 10) ELSE appended

\* _add_to_history: append, then keep interaction_history[-10:]
add_to_history(history, entry) ==
    LET appended == Append(history, entry)
    IN  IF Len(appended) > 10
        THEN SubSeq(appended, Len(appended) - 9, Len(appended))
        ELSE appended

\* process_customer_input(user_input): carlos_response is what crew.kickoff
\* returns and raises tells whether it raises instead; the except branch
\* returns the apology. answered is the set of the calls that were answered,
\* and nth the number of the call an entry of the history belongs to.
process_customer_input(user_input, carlos_response, raises) ==
    LET count == crew.conversation_count + 1
        profile == crew.customer_profile
    IN
    \E updates \in {analyze_input(user_input)} :
    LET unique(seq) ==
            LET kept == {i \in 1..Len(seq) : \A j \in 1..(i - 1) : seq[j] # seq[i]}
                nth(n) == CHOOSE i \in kept : Cardinality({j \in kept : j < i}) = n - 1
            IN  [n \in 1..Cardinality(kept) |-> seq[nth(n)]]
        \* ProfileAnalyzer.merge_profile_updates
        merged == [profile EXCEPT
                      !.budget_range = IF updates.budget_range = <<>> THEN @
                                       ELSE updates.budget_range,
                      !.preferences = unique(@ \o updates.preferences),
                      !.needs = unique(@ \o updates.needs)]
        history == profile.interaction_history
        \* _build_conversation_context
        context == [sales_stage |-> crew.sales_stage,
                    customer_profile_summary |->
                        <<merged.budget_range, merged.preferences, merged.needs>>,
                    interaction_history |->
                        SubSeq(history, IF Len(history) > 3 THEN Len(history) - 2 ELSE 1,
                               Len(history))]
        entry == [timestamp |-> clock, customer |-> user_input,
                  carlos |-> carlos_response, nth |-> count]
    IN  /\ crew' = [crew EXCEPT
                       !.conversation_count = count,
                       !.answered = IF raises THEN @ ELSE @ \cup {count},
                       !.customer_profile =
                           IF raises THEN merged
                           ELSE [merged EXCEPT
                                    !.interaction_history = add_to_history(@, entry)]]
        /\ last' = [Call("message") EXCEPT
                       !.query = user_input,
                       !.ok = ~raises,
                       !.stats = context,
                       !.result = IF raises
                                  THEN <<<<"D", "i", "s", "c", "u", "l", "p", "a">>>>
                                  ELSE <<carlos_response>>]
        /\ UNCHANGED <<csv_file, inventory_df, search_cache, cache_stats, clock, calls,
                       counted, reserved_at, tool, sessions>>

\* UpdateSalesStageToolCorrected._run(new_stage): the answer of the tool
UpdateSalesStage_run(new_stage) ==
    /\ tool' = [name |-> "UpdateSalesStage", arg |-> new_stage,
                raised |-> except_Exception(FALSE), response |-> "updated"]
    /\ last' = [Call("update_stage") EXCEPT !.query = new_stage, !.ok = TRUE]
    /\ UNCHANGED <<csv_file, inventory_df, search_cache, cache_stats, clock, calls,
                   counted, reserved_at, crew, sessions>>

\* One conversation: the customer's messages, and the stage changes that
\* the agent asks for with its tool.
NextCrew ==
    \/ \E raises \in BOOLEAN :
          /\ crew.conversation_count < MaxMessages
          /\ process_customer_input(<<"S", "U", "V", " ", "4", "0", " ", "m", "i", "l">>,
                                    <<"o", "k">>, raises)
    \/ \E new_stage \in {<<"g", "r", "e", "e", "t", "i", "n", "g">>,
                         <<"c", "l", "o", "s", "i", "n", "g">>} :
          UpdateSalesStage_run(new_stage)

SpecCrew == InitStatus /\ [][NextCrew]_vars

\* C28: the interaction history holds at most 10 entries, which are the
\* most recent answered calls of process_customer_input in the order of the
\* calls; a call that is answered appends its own entry at the end (and
\* drops the oldest entry of a full history), and a call whose crew run
\* raises leaves the history as it is.
C28_HistoryIsLastTenAnswered ==
    /\ [](LET h == crew.customer_profile.interaction_history
              recent == {n \in crew.answered :
                            Cardinality({m \in crew.answered : m > n}) < 10}
          IN  /\ Len(h) <= 10
              /\ {h[i].nth : i \in 1..Len(h)} = recent
              /\ \A i, j \in 1..Len(h) : i < j => h[i].nth < h[j].nth)
    /\ [][crew'.conversation_count # crew.conversation_count =>
             LET h == crew.customer_profile.interaction_history
                 after == crew'.customer_profile.interaction_history
             IN  IF last'.ok
                 THEN /\ after # <<>>
                      /\ after[Len(after)].nth = crew'.conversation_count
                      /\ after[Len(after)].customer = last'.query
                      /\ SubSeq(after, 1, Len(after) - 1) =
                             IF Len(h) = 10 THEN Tail(h) ELSE h
                 ELSE after = h]_vars

\* twelve calls of which the fifth raised: the history holds the ten latest
\* of the eleven answered ones
C28_OldestAnsweredDropped ==
    LET h == crew.customer_profile.interaction_history
    IN  /\ crew.conversation_count = 12
        /\ crew.answered = (1..12) \ {5}
        /\ Len(h) = 10
        /\ h[1].nth = 2 /\ h[4].nth = 6 /\ h[10].nth = 12

\* C29, as claimed: once UpdateSalesStage has run with new_stage and
\* reported the stage as updated, the sales_stage that the next message gets
\* as context and that get_conversation_stats reports is new_stage.
C29_StageIsTheUpdatedStage ==
    (tool.name = "UpdateSalesStage" /\ tool.response = "updated")
        => crew.sales_stage = tool.arg

\* after the tool reported the stage closing, a message was processed with
\* the stage greeting as its context
C29_MessageAfterUpdateSeesGreeting ==
    /\ tool.name = "UpdateSalesStage" /\ tool.response = "updated"
    /\ tool.arg = <<"c", "l", "o", "s", "i", "n", "g">>
    /\ last.op = "message"
    /\ last.stats.sales_stage = <<"g", "r", "e", "e", "t", "i", "n", "g">>
    /\ crew.sales_stage = <<"g", "r", "e", "e", "t", "i", "n", "g">>

====
